---- MODULE Spec2Model ----
(***************************************************************************)
(* A model of the LLM gateway client of ai-writer                          *)
(* (src/apps/api/ai_writer_api/llm.py): the config resolver, the endpoint  *)
(* candidate builder, the error ranker, the two request executors and the  *)
(* generate_text cascade.                                                  *)
(*                                                                         *)
(* Strings.  A Python str is modelled as a sequence of atoms, each atom a  *)
(* non-empty piece of text, and the str is the concatenation of its atoms. *)
(* Every literal the code matches ("/v1", "https://", "openai_http_404",   *)
(* "distributor", ...) is written as a sequence of atoms, and the inputs   *)
(* are cut into atoms so that a literal can only begin and end on an atom  *)
(* boundary: "/", a blank and each quote are always atoms of their own,    *)
(* "v1beta" is the two atoms "v1","beta", and a model name is cut into the *)
(* single characters the code indexes.  With that, startswith, endswith,   *)
(* `in`, strip, slicing and concatenation on the sequences agree with the  *)
(* Python operations on the text.                                          *)
(***************************************************************************)
EXTENDS Integers, Sequences, FiniteSets, TLC

VARIABLES
    r_in,       \* resolve_llm_config: the arguments (settings blob and secrets)
    r_out,      \* resolve_llm_config: <<>> before the call, <<LLMConfig>> after
    cb_in,      \* build_candidates: the arguments [base, path]
    cb_out,     \* build_candidates: <<>> before the call, <<list of URLs>> after
    cfg,        \* generate_text: the LLMConfig argument
    transport,  \* the answers the upstream can give to a request of this call
    pc,         \* generate_text: where the call stands
    top,        \* generate_text: line (0 none, 1 primary, 2 secondary), errors
    fb,         \* *_with_fallbacks: idx (0 is cfg.model, k is fallbacks[k]), best
    gen,        \* openai_compatible_generate: kind_idx, errs
    ex,         \* the executor: shape, attempt, ci (candidate index),
                \* attempt_had_transient, last_err, best_err
    exc,        \* the LLMError in flight while pc = "raised"
    result,     \* what generate_text returned or raised
    packy_next_allowed_in,  \* _PACKY_NEXT_ALLOWED_AT - loop.time(), 0 if past (ms)
    packy_permits,          \* the free slots of _PACKY_SEMAPHORE
    hist,       \* history of the call (not program state), read by the properties
    tk,         \* concurrent calls on the gateway: each task's position and locals
    lock_holder, \* _PACKY_THROTTLE_LOCK: the task inside `async with`, 0 if free
    rin,        \* stream_run: the payload and the project settings the run reads
    run,        \* stream_run.gen: position, Run.status, the events emitted, locals
    db,         \* the tables project, run, trace_event, chapter, kb_chunk
    last,       \* the last request served and its response
    xh,         \* one executor call on its own: what its rounds requested and got
    gate,       \* the throttle gate with a clock: timestamp, mutex, slots, requests
    fx,         \* a helper applied on its own: [fn, arg, out]; out is <<>> before, <<value>> after
    sn          \* one run and the LLM settings of its project: settings, run_llm_cfg, pc, calls

cfgVars == <<r_in, r_out>>

candVars == <<cb_in, cb_out>>

genVars == <<cfg, transport, pc, top, fb, gen, ex, exc, result,
             packy_next_allowed_in, packy_permits, hist>>

\* what one generate_text call owns: genVars without the gateway throttle
callVars == <<cfg, transport, pc, top, fb, gen, ex, exc, result, hist>>

thrVars == <<tk, lock_holder>>

\* the variables outside resolver, builder and a single generate_text call
runVars == <<rin, run>>

delVars == <<db, last>>

restVars == <<thrVars, runVars, delVars, xh, gate, fx, sn>>

vars == <<r_in, r_out, cb_in, cb_out, cfg, transport, pc, top, fb, gen, ex, exc, result,
          packy_next_allowed_in, packy_permits, hist, tk, lock_holder, rin, run,
          db, last, xh, gate, fx, sn>>

-----------------------------------------------------------------------------
(* str helpers *)

StartsWith(s, p) == Len(p) <= Len(s) /\ SubSeq(s, 1, Len(p)) = p

EndsWith(s, p) == Len(p) <= Len(s) /\ SubSeq(s, Len(s) - Len(p) + 1, Len(s)) = p

\* p in s
Contains(s, p) == \E i \in 0..(Len(s) - Len(p)) : SubSeq(s, i + 1, i + Len(p)) = p

\* s[:-len(p)]
DropLast(s, n) == SubSeq(s, 1, Len(s) - n)

\* s[n:]
DropFirst(s, n) == SubSeq(s, n + 1, Len(s))

RECURSIVE RStripSet(_, _)
RStripSet(s, cs) ==
    IF s # <<>> /\ s[Len(s)] \in cs THEN RStripSet(DropLast(s, 1), cs) ELSE s

RECURSIVE LStripSet(_, _)
LStripSet(s, cs) ==
    IF s # <<>> /\ s[1] \in cs THEN LStripSet(DropFirst(s, 1), cs) ELSE s

Whitespace == {" ", "\t", "\n"}

\* s.strip()
Strip(s) == LStripSet(RStripSet(s, Whitespace), Whitespace)

\* s.rstrip("/") and s.lstrip("/")
RStripSlash(s) == RStripSet(s, {"/"})

LStripSlash(s) == LStripSet(s, {"/"})

RECURSIVE Flatten(_)
\* the concatenation of a list of strs
Flatten(ss) == IF ss = <<>> THEN <<>> ELSE Head(ss) \o Flatten(Tail(ss))

\* the atoms that hold an upper-case letter, and their lower-case form
LowerAtom(a) ==
    CASE a = "Packyapi.com" -> "packyapi.com"
      [] a = "Gemini-" -> "gemini-"
      [] a = "No" -> "no"
      [] a = "Responses" -> "responses"
      [] a = "G" -> "g"
      [] a = "P" -> "p"
      [] a = "T" -> "t"
      [] a = "O" -> "o"
      [] OTHER -> a

\* s.lower()
Lower(s) == [i \in 1..Len(s) |-> LowerAtom(s[i])]

\* the wrapping-quote test of _normalize_base_url and resolve_llm_config
IsQuoted(u) ==
    /\ Len(u) >= 2
    /\ \/ (u[1] = "\"" /\ u[Len(u)] = "\"")
       \/ (u[1] = "'" /\ u[Len(u)] = "'")

-----------------------------------------------------------------------------
(* URL normalisation *)

HTTP == <<"http:", "/", "/">>

HTTPS == <<"https:", "/", "/">>

V1 == <<"/", "v1">>

V1BETA == <<"/", "v1", "beta">>

_is_google_genai_base(base_url) ==
    LET u == Lower(base_url)
    IN  base_url # <<>>
        /\ (Contains(u, <<"generativelanguage.googleapis.com">>)
            \/ Contains(u, <<"genai.googleapis.com">>))

_is_packy_base(base_url) ==
    base_url # <<>> /\ Contains(Lower(base_url), <<"packyapi.com">>)

_normalize_base_url(url) ==
    LET u0 == RStripSlash(Strip(url))
        u1 == IF IsQuoted(u0)
              THEN RStripSlash(Strip(SubSeq(u0, 2, Len(u0) - 1)))
              ELSE u0
    IN  IF u1 # <<>> /\ ~(StartsWith(u1, HTTP) \/ StartsWith(u1, HTTPS))
        THEN HTTPS \o LStripSlash(u1)
        ELSE u1

_OPENAI_ENDPOINT_SUFFIXES ==
    << <<"/", "v1", "/", "chat", "/", "completions">>,
       <<"/", "chat", "/", "completions">>,
       <<"/", "v1", "/", "responses">>,
       <<"/", "responses">> >>

RECURSIVE StripFirstSuffix(_, _, _)
\* the for loop of _strip_openai_endpoint_suffix, from suffix number i on
StripFirstSuffix(u, sufs, i) ==
    IF i > Len(sufs) THEN u
    ELSE IF EndsWith(u, sufs[i]) THEN RStripSlash(DropLast(u, Len(sufs[i])))
    ELSE StripFirstSuffix(u, sufs, i + 1)

_strip_openai_endpoint_suffix(base_url) ==
    StripFirstSuffix(RStripSlash(Strip(base_url)), _OPENAI_ENDPOINT_SUFFIXES, 1)

-----------------------------------------------------------------------------
(* Endpoint Candidate Builder *)

\* candidates_out.append(u) if u not in candidates_out
AppendNew(out, u) == IF \E i \in 1..Len(out) : out[i] = u THEN out ELSE Append(out, u)

RECURSIVE AppendAllNew(_, _)
AppendAllNew(out, us) ==
    IF us = <<>> THEN out ELSE AppendAllNew(AppendNew(out, Head(us)), Tail(us))

\* CandidateUrls without the endswith("/v1") test: both forms for every base
CandidateUrls_NoV1Test(bb, path) ==
    IF bb = <<>> THEN <<>>
    ELSE << bb \o V1 \o <<"/">> \o path, bb \o <<"/">> \o path >>

\* the URLs build_candidates derives from one base bb
CandidateUrls(bb, path) ==
    IF bb = <<>> THEN <<>>
    ELSE IF EndsWith(bb, V1) THEN << bb \o <<"/">> \o path >>
    ELSE << bb \o V1 \o <<"/">> \o path, bb \o <<"/">> \o path >>

build_candidates(base_in, path) ==
    LET b == _normalize_base_url(base_in)
    IN  IF _is_packy_base(b)
        THEN LET root == IF EndsWith(b, V1) THEN DropLast(b, Len(V1)) ELSE b
             IN  << root \o V1 \o <<"/">> \o path >>
        ELSE LET bases == IF EndsWith(b, V1) THEN <<b, DropLast(b, Len(V1))>> ELSE <<b>>
                 first == AppendAllNew(<<>>, CandidateUrls(bases[1], path))
             IN  IF Len(bases) = 1 THEN first
                 ELSE AppendAllNew(first, CandidateUrls(bases[2], path))

-----------------------------------------------------------------------------
(* Config Resolver *)

Digits == {"0", "1", "2", "3", "4", "5", "6", "7", "8", "9"}

GPT_DASH == <<"g", "p", "t", "-">>

\* re.match(r"^gpt\d", low)
MatchesGptDigit(low) ==
    Len(low) >= 4 /\ SubSeq(low, 1, 3) = <<"g", "p", "t">> /\ low[4] \in Digits

\* the dash insertion that also drops the character after gpt
_normalize_openai_model_name_DropsDigit(model) ==
    LET m == Strip(model)
        low == Lower(m)
    IN  IF MatchesGptDigit(low) /\ ~StartsWith(low, GPT_DASH)
        THEN GPT_DASH \o DropFirst(m, 4)
        ELSE m

_normalize_openai_model_name(model) ==
    LET m == Strip(model)
        low == Lower(m)
    IN  IF low = <<"g", "p", "t", "4", "o">> THEN GPT_DASH \o <<"4", "o">>
        ELSE IF low = <<"g", "p", "t", "4", "o", "-", "m", "i", "n", "i">>
             THEN GPT_DASH \o <<"4", "o", "-", "m", "i", "n", "i">>
        ELSE IF MatchesGptDigit(low) /\ ~StartsWith(low, GPT_DASH)
             THEN GPT_DASH \o DropFirst(m, 3)
        ELSE m

\* x or y, for values that are None or a str
Or(x, y) == IF x # <<>> THEN x ELSE y

\* the quote stripping of a model name in resolve_llm_config
StripModelQuotes(model) ==
    LET m == Strip(model)
    IN  IF IsQuoted(m) THEN Strip(SubSeq(m, 2, Len(m) - 1)) ELSE m

DEFAULT_TEMPERATURE_TENTHS == 7

DEFAULT_MAX_TOKENS == 800

\* A settings value that is not read as a str: t is its JSON type and v its
\* number: "none" (absent or null), "int", "bool", "float" (v in tenths),
\* "intstr" (a str holding an integer), "floatstr" (a str holding a decimal,
\* v in tenths), "badstr" (any other str), "other" (a list or an object).
NoVal == [t |-> "none", v |-> 0]

\* what a conversion ends with: a number, or an exception
Converted(v) == [ok |-> TRUE, v |-> v]

ConversionError == [ok |-> FALSE, v |-> 0]

\* float(x), in tenths
float_of(val) ==
    CASE val.t \in {"int", "bool", "intstr"} -> Converted(10 * val.v)
      [] val.t \in {"float", "floatstr"} -> Converted(val.v)
      [] OTHER -> ConversionError

\* int(x): a float is truncated towards zero, a str must hold an integer
int_of(val) ==
    CASE val.t \in {"int", "bool", "intstr"} -> Converted(val.v)
      [] val.t = "float" ->
            Converted(IF val.v >= 0 THEN val.v \div 10 ELSE -((-val.v) \div 10))
      [] OTHER -> ConversionError

\* try/except without the except clause: the exception leaves the resolver
TryExcept_Uncaught(res, default) ==
    [exception |-> ~res.ok, v |-> res.v]

\* try: ... except Exception: <default>
TryExcept(res, default) ==
    [exception |-> FALSE, v |-> IF res.ok THEN res.v ELSE default]

\* float(temperature) if temperature is not None else 0.7, under try/except
temperature_of(val) ==
    IF val.t = "none" THEN [exception |-> FALSE, v |-> DEFAULT_TEMPERATURE_TENTHS]
    ELSE TryExcept(float_of(val), DEFAULT_TEMPERATURE_TENTHS)

\* int(max_tokens) if max_tokens is not None else 800, under try/except
max_tokens_of(val) ==
    IF val.t = "none" THEN [exception |-> FALSE, v |-> DEFAULT_MAX_TOKENS]
    ELSE TryExcept(int_of(val), DEFAULT_MAX_TOKENS)

EmptySecrets ==
    [openai_api_key |-> <<>>, openai_base_url |-> <<>>, openai_model |-> <<>>,
     gemini_api_key |-> <<>>, gemini_base_url |-> <<>>, gemini_model |-> <<>>]

\* {}: every .get() gives None.  kind is "dict" for a JSON object; api_key is
\* a key of the blob that the resolver never reads.
EmptySection ==
    [kind |-> "dict", base_url |-> <<>>, model |-> <<>>, wire_api |-> <<>>, api |-> <<>>,
     api_key |-> <<>>]

EmptyLLM ==
    [kind |-> "dict", provider |-> <<>>, temperature |-> NoVal, max_tokens |-> NoVal,
     api_key |-> <<>>, openai |-> EmptySection, gemini |-> EmptySection]

\* x if isinstance(x, dict) else {}
SectionOrEmpty(x) == IF x.kind = "dict" THEN x ELSE EmptySection

\* project_settings.get("llm") if isinstance(project_settings, dict) else {},
\* and {} if that is not a dict
llm_of(project_settings) ==
    IF project_settings.kind = "dict" /\ project_settings.llm.kind = "dict"
    THEN project_settings.llm
    ELSE EmptyLLM

OPENAI_DEFAULT_BASE == HTTPS \o <<"api.openai.com">> \o V1

GEMINI_DEFAULT_BASE == HTTPS \o <<"generativelanguage.googleapis.com">>

OPENAI_DEFAULT_MODEL == GPT_DASH \o <<"4", "o", "-", "m", "i", "n", "i">>

GEMINI_DEFAULT_MODEL == <<"gemini-", "1.5", "-flash">>

\* provider = llm.get("provider") or "openai", openai if not recognized
provider_of(llm) ==
    LET provider == Or(llm.provider, <<"openai">>)
    IN  IF provider \in {<<"openai">>, <<"gemini">>} THEN provider ELSE <<"openai">>

\* the provider == "openai" branch of resolve_llm_config
openai_config(llm, s, temperature_f, max_tokens_i) ==
    LET openai_cfg == SectionOrEmpty(llm.openai)
        base_url == Or(openai_cfg.base_url, Or(s.openai_base_url, OPENAI_DEFAULT_BASE))
        model == Or(openai_cfg.model, Or(s.openai_model, OPENAI_DEFAULT_MODEL))
        wire_api_raw == Or(openai_cfg.wire_api, Or(openai_cfg.api, <<"chat">>))
        wire_api_s == Lower(Strip(wire_api_raw))
    IN  [provider |-> "openai",
         base_url |-> _strip_openai_endpoint_suffix(_normalize_base_url(base_url)),
         model |-> _normalize_openai_model_name(StripModelQuotes(model)),
         api_key |-> s.openai_api_key,
         temperature |-> temperature_f.v,
         max_tokens |-> max_tokens_i.v,
         wire_api |-> IF wire_api_s \in {<<"responses">>, <<"response">>}
                      THEN "responses" ELSE "chat",
         exception |-> temperature_f.exception \/ max_tokens_i.exception]

\* the gemini branch of resolve_llm_config
gemini_config(llm, s, temperature_f, max_tokens_i) ==
    LET gemini_cfg == SectionOrEmpty(llm.gemini)
        base_url == Or(gemini_cfg.base_url, Or(s.gemini_base_url, GEMINI_DEFAULT_BASE))
        model == Or(gemini_cfg.model, Or(s.gemini_model, GEMINI_DEFAULT_MODEL))
    IN  [provider |-> "gemini",
         base_url |-> _normalize_base_url(base_url),
         model |-> StripModelQuotes(model),
         api_key |-> s.gemini_api_key,
         temperature |-> temperature_f.v,
         max_tokens |-> max_tokens_i.v,
         wire_api |-> "chat",
         exception |-> temperature_f.exception \/ max_tokens_i.exception]

\* resolve_llm_config that lets the settings blob override the key
resolve_llm_config_KeyFromSettings(project_settings, s) ==
    LET llm == llm_of(project_settings)
        c == IF provider_of(llm) = <<"openai">>
             THEN openai_config(llm, s, temperature_of(llm.temperature),
                                max_tokens_of(llm.max_tokens))
             ELSE gemini_config(llm, s, temperature_of(llm.temperature),
                                max_tokens_of(llm.max_tokens))
        own == IF c.provider = "openai" THEN SectionOrEmpty(llm.openai)
               ELSE SectionOrEmpty(llm.gemini)
    IN  [c EXCEPT !.api_key = Or(own.api_key, Or(llm.api_key, c.api_key))]

\* the LLMConfig returned (exception: an exception left the resolver instead)
resolve_llm_config(project_settings, s) ==
    LET llm == llm_of(project_settings)
    IN  IF provider_of(llm) = <<"openai">>
        THEN openai_config(llm, s, temperature_of(llm.temperature),
                           max_tokens_of(llm.max_tokens))
        ELSE gemini_config(llm, s, temperature_of(llm.temperature),
                           max_tokens_of(llm.max_tokens))

-----------------------------------------------------------------------------
(* HTTP responses *)

\* The parsed JSON body, as far as the code reads it.  A field that is absent
\* or not a str is the empty str: the code tests every field with
\* isinstance(x, str) and x.strip().
\*   error_message  data["error"]["message"]
\*   detail         data["detail"]
\*   output_text    data["output_text"]
\*   content        data["choices"][0]["message"]["content"]
\*   choice_text    data["choices"][0]["text"]
\*   output_parts   the text of data["output"][i]["content"][j], in order
\*   gparts         the text of data["candidates"][0]["content"]["parts"][i]
\*   gparts_str     whether every such text is a str (or absent)
\*   content_parts  when data["choices"][0]["message"]["content"] is a list: the
\*                  text of its parts, in order (content is then <<>>)
NoData ==
    [error_message |-> <<>>, detail |-> <<>>, output_text |-> <<>>, content |-> <<>>,
     choice_text |-> <<>>, output_parts |-> <<>>, gparts |-> <<>>, gparts_str |-> TRUE,
     content_parts |-> <<>>]

CT_JSON == <<"application/json">>

CT_HTML == <<"text/html", ";", " ", "charset=utf-8">>

CT_PLAIN == <<"text/plain">>

\* what `await client.post(...)` ends with: an httpx.Response, or an exception
HttpResponse(status, ctype, parses, data, text) ==
    [kind |-> "http", status |-> status, ctype |-> ctype, parses |-> parses,
     data |-> data, text |-> text, exc |-> ""]

RespTimeout ==
    [kind |-> "timeout", status |-> 0, ctype |-> <<>>, parses |-> FALSE,
     data |-> NoData, text |-> <<>>, exc |-> "ReadTimeout"]

RespNetErr ==
    [kind |-> "neterr", status |-> 0, ctype |-> <<>>, parses |-> FALSE,
     data |-> NoData, text |-> <<>>, exc |-> "ConnectError"]

HTML_PAGE == <<"<html>", "Bad", " ", "Gateway", "</html>">>

Resp404 == HttpResponse(404, CT_HTML, FALSE, NoData, HTML_PAGE)

Resp401 ==
    HttpResponse(401, CT_JSON, TRUE,
                 [NoData EXCEPT !.error_message = <<"invalid", " ", "key">>],
                 <<"{error}">>)

Resp502Html == HttpResponse(502, CT_HTML, FALSE, NoData, HTML_PAGE)

Resp502Bare == HttpResponse(502, CT_PLAIN, FALSE, NoData, <<>>)

Resp503Dist ==
    HttpResponse(503, CT_JSON, TRUE,
                 [NoData EXCEPT !.error_message = <<"No", " ", "distributor">>],
                 <<"{error}">>)

GOOD_DATA ==
    [NoData EXCEPT !.content = <<"Hello">>, !.gparts = << <<"A">>, <<"B">> >>]

BLANK_DATA ==
    [NoData EXCEPT !.content = <<" ">>, !.gparts = << <<" ">>, <<>> >>]

\* a body that is JSON, served without a JSON content-type
Resp200Plain == HttpResponse(200, CT_PLAIN, TRUE, GOOD_DATA, <<"{json}">>)

Resp200BadJson == HttpResponse(200, CT_JSON, FALSE, NoData, <<"{">>)

Resp200Blank == HttpResponse(200, CT_JSON, TRUE, BLANK_DATA, <<"{json}">>)

Resp200Ok == HttpResponse(200, CT_JSON, TRUE, GOOD_DATA, <<"{json}">>)

\* a Gemini body whose first part has "text": null (the join of the parts
\* raises TypeError); no chat or responses text
Resp200NullPart ==
    HttpResponse(200, CT_JSON, TRUE,
                 [NoData EXCEPT !.gparts = << <<>>, <<"B">> >>, !.gparts_str = FALSE],
                 <<"{json}">>)

\* a JSON body without "candidates", "choices", "output" or "output_text"
Resp200NoCandidates == HttpResponse(200, CT_JSON, TRUE, NoData, <<"{}">>)

\* f"{r.status_code}"
CodeAtom(n) ==
    CASE n = 200 -> "200" [] n = 401 -> "401" [] n = 404 -> "404" [] n = 429 -> "429"
      [] n = 500 -> "500" [] n = 502 -> "502" [] n = 503 -> "503" [] n = 504 -> "504"

-----------------------------------------------------------------------------
(* Error Classifier & Ranker, Response Extractor *)

\* the two Chinese phrases of the source are written as the atoms
\* "no_channel_zh" and "model_missing_zh"
_looks_like_model_unavailable(msg) ==
    LET m == Lower(Strip(msg))
    IN  /\ m # <<>>
        /\ \/ Contains(m, <<"no_channel_zh">>)
           \/ Contains(m, <<"model_not_found">>)
           \/ Contains(m, <<"model_missing_zh">>)
           \/ Contains(m, <<"no", " ", "distributor">>)
           \/ Contains(m, <<"distributor">>)

CLIP_MAX_LEN == 220

clip(s) ==
    LET ss == Strip(s)
    IN  IF Len(ss) <= CLIP_MAX_LEN THEN ss
        ELSE RStripSet(SubSeq(ss, 1, CLIP_MAX_LEN - 3), Whitespace) \o <<"...">>

IsJsonCtype(resp) == Contains(Lower(resp.ctype), <<"application/json">>)

extract_err_detail(resp) ==
    IF IsJsonCtype(resp) /\ resp.parses /\ Strip(resp.data.error_message) # <<>>
    THEN clip(resp.data.error_message)
    ELSE IF IsJsonCtype(resp) /\ resp.parses /\ Strip(resp.data.detail) # <<>>
    THEN clip(resp.data.detail)
    ELSE IF Contains(Lower(resp.ctype), <<"text/html">>) THEN <<"html_error_page">>
    ELSE clip(resp.text)

err_score(msg) ==
    LET m == Strip(msg)
    IN  IF m = <<>> THEN -1
        ELSE IF StartsWith(m, <<"openai_http_", "404">>) \/ StartsWith(m, <<"gemini_http_", "404">>)
        THEN 0
        ELSE IF StartsWith(m, <<"openai_non_json_response">>) THEN 10
        ELSE IF StartsWith(m, <<"openai_bad_json">>) THEN 20
        ELSE IF StartsWith(m, <<"openai_bad_response">>) THEN 25
        ELSE IF StartsWith(m, <<"empty_completion">>) THEN 30
        ELSE IF StartsWith(m, <<"openai_timeout">>) \/ StartsWith(m, <<"openai_network_error">>)
        THEN 80
        ELSE IF StartsWith(m, <<"openai_http_">>) THEN 90
        ELSE IF StartsWith(m, <<"gemini_timeout">>) \/ StartsWith(m, <<"gemini_network_error">>)
        THEN 80
        ELSE IF StartsWith(m, <<"gemini_http_">>) THEN 90
        ELSE 40

\* "".join(parts)
Join(parts) == Flatten(parts)

\* parts.append(t) for every t with t.strip()
NonBlank(parts) == SelectSeq(parts, LAMBDA t : Strip(t) # <<>>)

\* the order of the fallbacks with the message content looked at first
extract_chat_text_ContentFirst(data) ==
    IF Strip(data.content) # <<>> THEN data.content
    ELSE IF Strip(Join(NonBlank(data.content_parts))) # <<>>
    THEN Join(NonBlank(data.content_parts))
    ELSE IF Strip(data.choice_text) # <<>> THEN data.choice_text
    ELSE IF Strip(data.output_text) # <<>> THEN data.output_text
    ELSE <<>>

extract_chat_text(data) ==
    IF Strip(data.output_text) # <<>> THEN data.output_text
    ELSE IF Strip(data.content) # <<>> THEN data.content
    ELSE IF Strip(Join(NonBlank(data.content_parts))) # <<>>
    THEN Join(NonBlank(data.content_parts))
    ELSE IF Strip(data.choice_text) # <<>> THEN data.choice_text
    ELSE <<>>

extract_responses_text(data) ==
    IF Strip(data.output_text) # <<>> THEN data.output_text
    ELSE IF Strip(Join(NonBlank(data.output_parts))) # <<>>
    THEN Join(NonBlank(data.output_parts))
    ELSE extract_chat_text(data)

\* the extraction inlined in gemini_generate_v1beta
extract_gemini_text(data) == Join(data.gparts)

\* parser(data), for parser = extract_chat_text or extract_responses_text
Parse(parser, data) ==
    IF parser = "responses" THEN extract_responses_text(data) ELSE extract_chat_text(data)

-----------------------------------------------------------------------------
(* Request Executor: what one candidate request leads to *)

transient_status == {408, 409, 425, 429, 500, 502, 503, 504}

max_attempts == 3

\* the three ways one iteration of `for url in candidates` ends
Return(text) == [kind |-> "return", msg |-> text, transient |-> FALSE]

Record(msg, transient) == [kind |-> "record", msg |-> msg, transient |-> transient]

\* Raise with the tag recorded instead: the candidate loop goes on
Raise_Recorded(msg) == [kind |-> "record", msg |-> msg, transient |-> FALSE]

\* raise LLMError(msg)
Raise(msg) == [kind |-> "raise", msg |-> msg, transient |-> FALSE]

\* f"{provider}_http_{r.status_code}" plus ":" and the detail, if any
HttpTag(prefix, r) ==
    LET detail == extract_err_detail(r)
    IN  <<prefix, CodeAtom(r.status)>> \o (IF detail # <<>> THEN <<":">> \o detail ELSE <<>>)

\* the body of the candidate loop of openai_compatible_request, for response r
openai_attempt(r, parser, fast_fail_on_model_unavailable) ==
    IF r.kind = "timeout" THEN Record(<<"openai_timeout">>, TRUE)
    ELSE IF r.kind = "neterr" THEN Record(<<"openai_network_error", ":", r.exc>>, TRUE)
    ELSE IF r.status = 404 THEN Record(<<"openai_http_", "404">>, FALSE)
    ELSE IF r.status >= 400
    THEN LET msg == HttpTag("openai_http_", r)
         IN  IF r.status \in transient_status
             THEN IF fast_fail_on_model_unavailable /\ _looks_like_model_unavailable(msg)
                  THEN Raise(msg)
                  ELSE Record(msg, TRUE)
             ELSE Raise(msg)
    ELSE IF ~IsJsonCtype(r) THEN Record(<<"openai_non_json_response">>, FALSE)
    ELSE IF ~r.parses THEN Record(<<"openai_bad_json">>, FALSE)
    ELSE LET content == Parse(parser, r.data)
         IN  IF Strip(content) = <<>> THEN Record(<<"empty_completion">>, TRUE)
             ELSE Return(content)

\* the body of the candidate loop of gemini_generate_v1beta, for response r
gemini_attempt(r) ==
    IF r.kind = "timeout" THEN Record(<<"gemini_timeout">>, TRUE)
    ELSE IF r.kind = "neterr" THEN Record(<<"gemini_network_error", ":", r.exc>>, TRUE)
    ELSE IF r.status = 404 THEN Record(<<"gemini_http_", "404">>, FALSE)
    ELSE IF r.status >= 400
    THEN LET msg == HttpTag("gemini_http_", r)
         IN  IF r.status \in transient_status
             THEN IF _looks_like_model_unavailable(msg) THEN Raise(msg)
                  ELSE Record(msg, TRUE)
             ELSE Raise(msg)
    ELSE IF ~r.parses THEN Record(<<"gemini_bad_json">>, FALSE)
    ELSE IF ~r.data.gparts_str THEN Raise(<<"gemini_bad_response", ":", "TypeError">>)
    ELSE LET text_s == extract_gemini_text(r.data)
         IN  IF Strip(text_s) = <<>> THEN Record(<<"empty_completion">>, TRUE)
             ELSE Return(text_s)

\* record_err of openai_compatible_request: last_err and best_err after msg
record_err(x, msg) ==
    [x EXCEPT !.last_err = msg,
              !.best_err = IF x.best_err = <<>> \/ err_score(msg) >= err_score(x.best_err)
                           THEN msg ELSE x.best_err]

\* gemini_generate_v1beta keeps the last error only
gemini_record_err(x, msg) == [x EXCEPT !.last_err = msg]

\* raise LLMError(best_err or last_err or "openai_failed")
openai_exhausted(x) == Or(x.best_err, Or(x.last_err, <<"openai_failed">>))

\* raise LLMError(last_err or "gemini_failed")
gemini_exhausted(x) == Or(x.last_err, <<"gemini_failed">>)

\* RetryRound without the bound on the number of rounds
RetryRound_Unbounded(x) == x.attempt_had_transient

\* after the last candidate of a round: sleep and go on, or stop
RetryRound(x) == x.attempt < max_attempts /\ x.attempt_had_transient

BACKOFF_BASE_MS == 800

BACKOFF_JITTER_MS == 200

RECURSIVE Pow2(_)
Pow2(n) == IF n = 0 THEN 1 ELSE 2 * Pow2(n - 1)

\* (0.8 * 2 ** (attempt - 1)) + random.random() * 0.2, in ms
Backoffs(attempt) ==
    {BACKOFF_BASE_MS * Pow2(attempt - 1) + j : j \in {0, BACKOFF_JITTER_MS - 1}}

\* the URL list of gemini_generate_v1beta
gemini_urls(base_url, model) ==
    LET base == _normalize_base_url(base_url)
        bases == <<base>>
                 \o (IF EndsWith(base, V1BETA) THEN <<DropLast(base, Len(V1BETA))>> ELSE <<>>)
                 \o (IF EndsWith(base, V1) THEN <<DropLast(base, Len(V1))>> ELSE <<>>)
        Url(bb) == IF bb = <<>> THEN <<>>
                   ELSE IF EndsWith(bb, V1BETA)
                   THEN << bb \o <<"/", "models", "/">> \o model \o <<":generateContent">> >>
                   ELSE << bb \o V1BETA \o <<"/", "models", "/">> \o model \o <<":generateContent">> >>
        urls == [i \in 1..Len(bases) |-> Url(bases[i])]
    IN  AppendAllNew(<<>>, Flatten(urls))

-----------------------------------------------------------------------------
(* Generation Facade: the cascades of generate_text *)

\* max(errs, key=err_score): the first element of maximal score
RECURSIVE MaxByScore(_)
MaxByScore(errs) ==
    IF Len(errs) = 1 THEN errs[1]
    ELSE LET rest == MaxByScore(Tail(errs))
         IN  IF err_score(rest) > err_score(Head(errs)) THEN rest ELSE Head(errs)

\* next((e for e in errs if e != best), None)
FirstOther(errs, best) ==
    LET others == SelectSeq(errs, LAMBDA e : e # best)
    IN  IF others = <<>> THEN <<>> ELSE others[1]

E502HTML == <<"openai_http_", "502", ":", "html_error_page">>

E404 == <<"openai_http_", "404">>

PACKY_HINT_CHAT == <<" | packyapi_hint=try wire_api=chat and model=gpt-5.1-codex">>

PACKY_HINT_MODEL == <<" | packyapi_hint=try model=gpt-5.1-codex">>

PACKY_HINT_GEMINI == <<" | packyapi_hint=try gemini-3-pro-preview or gemini-3-flash-preview (and if needed: gemini-2.5-pro / gemini-2.5-flash)">>

HINTED_MODELS ==
    {GPT_DASH \o <<"5", ".", "2">>, GPT_DASH \o <<"5">>, GPT_DASH \o <<"5", "-", "codex">>,
     GPT_DASH \o <<"5", ".", "2", "-", "codex">>}

\* WithAlt without the tests on alt
WithAlt_Always(best, alt) == best \o <<" | alt=">> \o alt

\* best, with the alt= suffix when the other error is not part of it
WithAlt(best, alt) ==
    IF alt # <<>> /\ ~Contains(best, alt) THEN best \o <<" | alt=">> \o alt ELSE best

\* the message openai_compatible_generate raises once every wire API failed
openai_generate_error(errs, base_url, model) ==
    IF errs = <<>> THEN <<"openai_failed">>
    ELSE LET best0 == MaxByScore(errs)
             alt == FirstOther(errs, best0)
             best == WithAlt(best0, alt)
         IN  IF Contains(Lower(base_url), <<"packyapi.com">>)
             THEN IF Contains(best, E502HTML) /\ (Contains(best, E404) \/ Contains(alt, E404))
                  THEN best \o PACKY_HINT_CHAT
                  ELSE IF Contains(best, E502HTML) /\ Lower(Strip(model)) \in HINTED_MODELS
                  THEN best \o PACKY_HINT_MODEL
                  ELSE best
             ELSE best

fallback_models ==
    << <<"gemini-", "3", "-pro-preview">>,
       <<"gemini-", "3", "-flash-preview">>,
       <<"gemini-", "2.5", "-flash">>,
       <<"gemini-", "2.5", "-pro">>,
       <<"gemini-", "3.1", "-pro-preview">>,
       <<"gemini-", "2.0", "-flash">>,
       <<"gemini-", "1.5", "-flash">> >>

PACKY_MAX_FALLBACKS == 4

\* the fallbacks list of generate_text for configured model cur on base
fallbacks_for(cur, base) ==
    LET cur_low == Lower(Strip(cur))
        fbs == SelectSeq(fallback_models, LAMBDA m : Lower(Strip(m)) # cur_low)
    IN  IF _is_packy_base(base) THEN SubSeq(fbs, 1, PACKY_MAX_FALLBACKS) ELSE fbs

\* re.match(r"^<provider>_http_(429|500|502|503|504)", best)
MatchesRetryableHttp(prefix, best) ==
    \E c \in {"429", "500", "502", "503", "504"} : StartsWith(best, <<prefix, c>>)

\* the test that sends *_with_fallbacks on to the fallback models
wants_fallbacks(prefix, best) ==
    \/ _looks_like_model_unavailable(best)
    \/ StartsWith(best, <<"empty_completion">>)
    \/ MatchesRetryableHttp(prefix, best)

\* merge_best that keeps the latest error
merge_best_KeepsLatest(best, efb) == efb

\* best = max([best, str(efb)], key=err_score)
merge_best(best, efb) == MaxByScore(<<best, efb>>)

-----------------------------------------------------------------------------
(* generate_text as a state machine: one step per awaited request or sleep,  *)
(* and one per except clause that handles an LLMError                        *)

_PACKY_MIN_REQUEST_INTERVAL_MS == 220

_PACKY_MAX_REQUEST_INTERVAL_MS == 350

_PACKY_MAX_INFLIGHT == 2

\* interval = MIN + random.random() * (MAX - MIN): the two ends of the range
Intervals == {_PACKY_MIN_REQUEST_INTERVAL_MS, _PACKY_MAX_REQUEST_INTERVAL_MS - 1}

\* how long an HTTP call may take (ms): no time, or longer than any interval
HttpDurations == {0, 1000}

Max(a, b) == IF a >= b THEN a ELSE b

NoErr == <<>>

NoExc == [msg |-> <<>>, level |-> "none", how |-> "none"]

NoResp ==
    [kind |-> "none", status |-> 0, ctype |-> <<>>, parses |-> FALSE,
     data |-> NoData, text |-> <<>>, exc |-> ""]

NoResult == [status |-> "none", val |-> <<>>, tag |-> <<>>, resp |-> NoResp]

IdleEx ==
    [shape |-> "none", attempt |-> 0, ci |-> 0, attempt_had_transient |-> FALSE,
     last_err |-> NoErr, best_err |-> NoErr]

\* the locals of an executor call at its start
NewEx(shape) ==
    [shape |-> shape, attempt |-> 1, ci |-> 1, attempt_had_transient |-> FALSE,
     last_err |-> NoErr, best_err |-> NoErr]

NewGen == [kind_idx |-> 1, errs |-> <<>>]

NewFb == [idx |-> 0, best |-> NoErr]

NoReq == [shape |-> "none", wire |-> "none", fb |-> 0]

InitHist ==
    [exec_http |-> 0,         \* HTTP requests of the current executor call
     exec_sleeps |-> 0,       \* backoff sleeps of the current executor call
     exec_max |-> -2,         \* highest err_score recorded in the executor call
     exec_all404 |-> TRUE,    \* every failure recorded in the executor call was a 404
     execs |-> 0,             \* executor calls started
     first_req |-> NoReq,     \* the first HTTP request of the call
     last_req |-> NoReq,      \* the latest HTTP request of the call
     requested |-> {},        \* the <<shape, wire, fallback?>> requested so far
     attempted |-> {},        \* openai provider: wire APIs whose executor was called
     failed |-> {},           \* openai provider: wire APIs whose executor raised
     branch_max |-> -2,       \* proxy cascade: highest err_score a branch raised
     branches |-> {},         \* proxy cascade: the <<shape, fallback?>> branches run
     gem_cfg_unavailable |-> FALSE,  \* the Gemini-native call of cfg.model raised a
                                     \* model-unavailable tag
     gem_line_failed |-> FALSE]      \* gemini_v1beta_with_fallbacks raised

\* base = cfg.base_url or <the provider's default>
Base ==
    Or(cfg.base_url, IF cfg.provider = "openai" THEN OPENAI_DEFAULT_BASE ELSE GEMINI_DEFAULT_BASE)

IsProxy == cfg.provider = "gemini" /\ ~_is_google_genai_base(Base)

prefer_openai_first == Contains(Lower(Base), <<"packyapi.com">>)

fallbacks == fallbacks_for(cfg.model, Base)

\* LineShape with the OpenAI-compatible line first on every proxy
LineShape_OpenAIFirst(line) == IF line = 1 THEN "openai" ELSE "gemini"

\* primary / secondary of generate_text
LineShape(line) ==
    IF line = 1
    THEN (IF prefer_openai_first THEN "openai" ELSE "gemini")
    ELSE (IF prefer_openai_first THEN "gemini" ELSE "openai")

\* the arguments of the current openai_compatible_generate call
Prefer == IF cfg.provider = "openai" THEN cfg.wire_api ELSE "chat"

AllowResponses == IF cfg.provider = "openai" THEN TRUE ELSE ~_is_packy_base(Base)

\* FastFail of a facade that never marks its calls
FastFail_Never == FALSE

\* fast_fail_on_model_unavailable of the current openai_compatible_generate call
FastFail == IF cfg.provider = "openai" THEN FALSE ELSE _is_packy_base(Base)

OtherWire(w) == IF w = "chat" THEN "responses" ELSE "chat"

\* kinds without the second wire API
Kinds_PreferredOnly == <<Prefer>>

\* kinds = (first, second) if allow_responses else (first,)
Kinds == IF AllowResponses THEN <<Prefer, OtherWire(Prefer)>> ELSE <<Prefer>>

WirePath(kind) ==
    IF kind = "responses" THEN <<"responses">> ELSE <<"chat", "/", "completions">>

ModelAt(i) == IF i = 0 THEN cfg.model ELSE fallbacks[i]

\* the candidate URLs of the executor call under way
Candidates ==
    IF ex.shape = "openai" THEN build_candidates(Base, WirePath(Kinds[gen.kind_idx]))
    ELSE gemini_urls(Base, ModelAt(fb.idx))

\* history: an executor call starts
HistNewExec(h, shape, wire) ==
    [h EXCEPT !.exec_http = 0, !.exec_sleeps = 0, !.exec_max = -2, !.exec_all404 = TRUE,
              !.execs = h.execs + 1,
              !.attempted = IF cfg.provider = "openai" THEN h.attempted \cup {wire}
                            ELSE h.attempted]

\* history: a branch of the proxy cascade (one model under one shape) starts
HistNewBranch(h, shape, i) == [h EXCEPT !.branches = h.branches \cup {<<shape, i > 0>>}]

\* `not cfg.api_key` with the check left out
KeyMissing_Unchecked == FALSE

\* not cfg.api_key: None or the empty str
KeyMissing == cfg.api_key = <<>>

\* generate_text, up to its first await
GenerateText ==
    /\ pc = "start"
    /\ IF KeyMissing
       THEN /\ result' = [status |-> "error",
                          val |-> <<"missing_api_key_for_provider:", cfg.provider>>,
                          tag |-> <<"missing_api_key_for_provider:", cfg.provider>>,
                          resp |-> NoResp]
            /\ pc' = "done"
            /\ UNCHANGED <<top, fb, gen, ex, hist>>
       ELSE /\ result' = result
            /\ pc' = "request"
            /\ fb' = NewFb
            /\ gen' = NewGen
            /\ IF cfg.provider = "openai"
               THEN /\ top' = [line |-> 0, errors |-> <<>>]
                    /\ ex' = NewEx("openai")
                    /\ hist' = HistNewExec(hist, "openai", Prefer)
               ELSE IF _is_google_genai_base(Base)
               THEN /\ top' = [line |-> 0, errors |-> <<>>]
                    /\ ex' = NewEx("gemini")
                    /\ hist' = HistNewExec(hist, "gemini", "native")
               ELSE /\ top' = [line |-> 1, errors |-> <<>>]
                    /\ ex' = NewEx(LineShape(1))
                    /\ hist' = HistNewBranch(
                                 HistNewExec(hist, LineShape(1),
                                             IF LineShape(1) = "openai" THEN Prefer ELSE "native"),
                                 LineShape(1), 0)
    /\ UNCHANGED <<cfg, transport, exc, packy_next_allowed_in, packy_permits>>
    /\ UNCHANGED <<cfgVars, candVars, restVars>>

\* _maybe_throttle_packy and the slot of _PACKY_SEMAPHORE around one HTTP call
\* that takes d ms: the time left until the next request is allowed
ThrottledCall(interval, d) ==
    IF _is_packy_base(Base)
    THEN /\ packy_permits > 0
         /\ packy_next_allowed_in' = Max(0, interval - d)
         /\ packy_permits' = (packy_permits - 1) + 1
    ELSE UNCHANGED <<packy_next_allowed_in, packy_permits>>

\* history: one HTTP request goes out
HistRequest(h) ==
    LET wire == IF ex.shape = "openai" THEN Kinds[gen.kind_idx] ELSE "native"
        req == [shape |-> ex.shape, wire |-> wire, fb |-> fb.idx]
    IN  [h EXCEPT !.exec_http = h.exec_http + 1,
                  !.first_req = IF h.first_req = NoReq THEN req ELSE h.first_req,
                  !.last_req = req,
                  !.requested = h.requested \cup {<<ex.shape, wire, fb.idx > 0>>}]

\* history: the executor records failure msg
HistRecord(h, msg) ==
    [h EXCEPT !.exec_max = Max(h.exec_max, err_score(msg)),
              !.exec_all404 = h.exec_all404 /\ (msg \in {<<"openai_http_", "404">>,
                                                         <<"gemini_http_", "404">>})]

\* a candidate failed: `continue`, `raise`, and what follows the last
\* candidate of a round
\* the flag follows the latest candidate only
HadTransient_LatestOnly(before, now) == now

\* attempt_had_transient = True: set by a transient failure, kept until the
\* round is over
HadTransient(before, now) == before \/ now

AfterFailure(o, recorded) ==
    IF o.kind = "raise"
    THEN /\ pc' = "raised"
         /\ exc' = [msg |-> o.msg, level |-> "executor", how |-> "fatal"]
         /\ hist' = HistRequest(hist)
         /\ UNCHANGED <<ex, result>>
    ELSE LET x == [recorded EXCEPT
                      !.ci = ex.ci + 1,
                      !.attempt_had_transient =
                          HadTransient(ex.attempt_had_transient, o.transient)]
         IN  /\ ex' = x
             /\ hist' = HistRecord(HistRequest(hist), o.msg)
             /\ result' = result
             /\ IF x.ci <= Len(Candidates)
                THEN pc' = "request" /\ exc' = exc
                ELSE IF RetryRound(x)
                THEN pc' = "backoff" /\ exc' = exc
                ELSE /\ pc' = "raised"
                     /\ exc' = [msg |-> IF x.shape = "openai" THEN openai_exhausted(x)
                                         ELSE gemini_exhausted(x),
                                level |-> "executor", how |-> "exhausted"]

\* AfterAttempt with the text stored instead of returned: the loop goes on
AfterAttempt_KeepsGoing(o, r, recorded) ==
    IF o.kind = "return"
    THEN /\ result' = [status |-> "text", val |-> o.msg, tag |-> <<>>, resp |-> r]
         /\ pc' = IF ex.ci < Len(Candidates) THEN "request" ELSE "done"
         /\ ex' = [ex EXCEPT !.ci = ex.ci + 1]
         /\ hist' = HistRequest(hist)
         /\ exc' = exc
    ELSE AfterFailure(o, recorded)

\* one iteration of the candidate loop, with outcome o of the request for
\* response r: `return content_s` ends generate_text
AfterAttempt(o, r, recorded) ==
    IF o.kind = "return"
    THEN /\ result' = [status |-> "text", val |-> o.msg, tag |-> <<>>, resp |-> r]
         /\ pc' = "done"
         /\ hist' = HistRequest(hist)
         /\ UNCHANGED <<ex, exc>>
    ELSE AfterFailure(o, recorded)

\* openai_compatible_request: the candidate ex.ci is requested behind the
\* throttle, the call takes d ms and ends with r
OpenAIPost(r, interval, d) ==
    /\ pc = "request"
    /\ ex.shape = "openai"
    /\ ex.ci <= Len(Candidates)
    /\ LET o == openai_attempt(r, Kinds[gen.kind_idx], FastFail)
       IN  /\ ThrottledCall(interval, d)
           /\ AfterAttempt(o, r, record_err(ex, o.msg))
    /\ UNCHANGED <<cfg, transport, top, fb, gen>>
    /\ UNCHANGED <<cfgVars, candVars>>

\* openai_compatible_request: the next candidate is requested
OpenAIRequest ==
    /\ \E r \in transport, interval \in Intervals, d \in HttpDurations :
          OpenAIPost(r, interval, d)
    /\ UNCHANGED restVars

\* gemini_generate_v1beta: the candidate ex.ci is requested behind the
\* throttle, the call takes d ms and ends with r
GeminiPost(r, interval, d) ==
    /\ pc = "request"
    /\ ex.shape = "gemini"
    /\ ex.ci <= Len(Candidates)
    /\ LET o == gemini_attempt(r)
       IN  /\ ThrottledCall(interval, d)
           /\ AfterAttempt(o, r, gemini_record_err(ex, o.msg))
    /\ UNCHANGED <<cfg, transport, top, fb, gen>>
    /\ UNCHANGED <<cfgVars, candVars>>

\* gemini_generate_v1beta: the next candidate is requested
GeminiRequest ==
    /\ \E r \in transport, interval \in Intervals, d \in HttpDurations :
          GeminiPost(r, interval, d)
    /\ UNCHANGED restVars

\* await asyncio.sleep(backoff); continue
Backoff(backoff) ==
    /\ pc = "backoff"
    /\ packy_next_allowed_in' = Max(0, packy_next_allowed_in - backoff)
    /\ ex' = [ex EXCEPT !.attempt = ex.attempt + 1, !.ci = 1,
                        !.attempt_had_transient = FALSE]
    /\ hist' = [hist EXCEPT !.exec_sleeps = hist.exec_sleeps + 1]
    /\ pc' = "request"
    /\ UNCHANGED <<cfg, transport, top, fb, gen, exc, result, packy_permits>>
    /\ UNCHANGED <<cfgVars, candVars>>

\* the sleep between two rounds
BackoffSleep ==
    /\ pc = "backoff"
    /\ \E backoff \in Backoffs(ex.attempt) : Backoff(backoff)
    /\ UNCHANGED restVars

\* the wire API of an executor call of shape `shape` for kind index k
WireOf(shape, k) == IF shape = "openai" THEN Kinds[k] ELSE "native"

\* openai_compatible_generate: except LLMError as e: errs.append(str(e));
\* the next kind, or the raise after the loop
CatchInGenerate ==
    /\ pc = "raised"
    /\ exc.level = "executor"
    /\ ex.shape = "openai"
    /\ LET errs == Append(gen.errs, exc.msg)
           wire == Kinds[gen.kind_idx]
           h1 == IF cfg.provider = "openai"
                 THEN [hist EXCEPT !.failed = hist.failed \cup {wire}]
                 ELSE hist
       IN  IF gen.kind_idx < Len(Kinds)
           THEN /\ gen' = [kind_idx |-> gen.kind_idx + 1, errs |-> errs]
                /\ ex' = NewEx("openai")
                /\ hist' = HistNewExec(h1, "openai", Kinds[gen.kind_idx + 1])
                /\ pc' = "request"
                /\ exc' = NoExc
           ELSE /\ gen' = [gen EXCEPT !.errs = errs]
                /\ exc' = [msg |-> openai_generate_error(errs, Base, ModelAt(fb.idx)),
                           level |-> "generate", how |-> "raise"]
                /\ pc' = "raised"
                /\ hist' = h1
                /\ ex' = ex
    /\ UNCHANGED <<cfg, transport, top, fb, result, packy_next_allowed_in, packy_permits>>
    /\ UNCHANGED <<cfgVars, candVars, restVars>>

\* provider openai, and provider gemini on a Google endpoint: nothing catches
\* the LLMError, generate_text raises it
PropagateOut ==
    /\ pc = "raised"
    /\ \/ cfg.provider = "openai" /\ exc.level = "generate"
       \/ cfg.provider = "gemini" /\ ~IsProxy /\ exc.level = "executor"
    /\ result' = [status |-> "error", val |-> exc.msg, tag |-> exc.msg, resp |-> NoResp]
    /\ pc' = "done"
    /\ UNCHANGED <<cfg, transport, top, fb, gen, ex, exc, hist,
                   packy_next_allowed_in, packy_permits>>
    /\ UNCHANGED <<cfgVars, candVars, restVars>>

\* openai_chat_with_fallbacks / gemini_v1beta_with_fallbacks: the except
\* clauses around the call for cfg.model and around each fallback model
CatchInFallbacks ==
    /\ pc = "raised"
    /\ IsProxy
    /\ \/ ex.shape = "openai" /\ exc.level = "generate"
       \/ ex.shape = "gemini" /\ exc.level = "executor"
    /\ LET prefix == IF ex.shape = "openai" THEN "openai_http_" ELSE "gemini_http_"
           best == IF fb.idx = 0 THEN exc.msg ELSE merge_best(fb.best, exc.msg)
           more == IF fb.idx = 0
                   THEN wants_fallbacks(prefix, best) /\ Len(fallbacks) > 0
                   ELSE fb.idx < Len(fallbacks)
           h1 == [hist EXCEPT
                    !.branch_max = Max(hist.branch_max, err_score(exc.msg)),
                    !.gem_cfg_unavailable =
                        hist.gem_cfg_unavailable
                        \/ (ex.shape = "gemini" /\ fb.idx = 0
                            /\ _looks_like_model_unavailable(exc.msg))]
       IN  IF more
           THEN /\ fb' = [idx |-> fb.idx + 1, best |-> best]
                /\ gen' = NewGen
                /\ ex' = NewEx(ex.shape)
                /\ hist' = HistNewBranch(HistNewExec(h1, ex.shape, WireOf(ex.shape, 1)),
                                         ex.shape, fb.idx + 1)
                /\ pc' = "request"
                /\ exc' = NoExc
           ELSE /\ fb' = [fb EXCEPT !.best = best]
                /\ exc' = [msg |-> best, level |-> "line", how |-> "raise"]
                /\ pc' = "raised"
                /\ hist' = [h1 EXCEPT !.gem_line_failed =
                                          h1.gem_line_failed \/ ex.shape = "gemini"]
                /\ UNCHANGED <<gen, ex>>
    /\ UNCHANGED <<cfg, transport, top, result, packy_next_allowed_in, packy_permits>>
    /\ UNCHANGED <<cfgVars, candVars, restVars>>

\* operator hint of the proxy cascade
FacadeHint(best) ==
    IF prefer_openai_first /\ _looks_like_model_unavailable(best)
    THEN best \o PACKY_HINT_GEMINI
    ELSE best

\* generate_text: except LLMError as e1 / e2, and the final raise
CatchInFacade ==
    /\ pc = "raised"
    /\ exc.level = "line"
    /\ LET errors == Append(top.errors, exc.msg)
       IN  IF top.line = 1
           THEN /\ top' = [line |-> 2, errors |-> errors]
                /\ fb' = NewFb
                /\ gen' = NewGen
                /\ ex' = NewEx(LineShape(2))
                /\ hist' = HistNewBranch(
                             HistNewExec(hist, LineShape(2), WireOf(LineShape(2), 1)),
                             LineShape(2), 0)
                /\ pc' = "request"
                /\ exc' = NoExc
                /\ result' = result
           ELSE /\ top' = [top EXCEPT !.errors = errors]
                /\ result' = [status |-> "error", val |-> FacadeHint(MaxByScore(errors)),
                              tag |-> MaxByScore(errors), resp |-> NoResp]
                /\ pc' = "done"
                /\ UNCHANGED <<fb, gen, ex, exc, hist>>
    /\ UNCHANGED <<cfg, transport, packy_next_allowed_in, packy_permits>>
    /\ UNCHANGED <<cfgVars, candVars, restVars>>

-----------------------------------------------------------------------------
(* Inputs of the pure functions *)

\* all sequences over S of length at most n
RECURSIVE SeqsUpTo(_, _)
SeqsUpTo(S, n) ==
    IF n = 0 THEN {<<>>}
    ELSE LET shorter == SeqsUpTo(S, n - 1)
         IN  shorter \cup {Append(q, x) : q \in shorter, x \in S}

\* path segments appended to a host, at most MaxSegs of them
MaxSegs == 3

\* endpoint suffixes pasted after a base URL, at most MaxSuffixes of them
MaxSuffixes == 2

Hosts == {<<"h.io">>, <<"www.", "packyapi.com">>}

PathSegs == {V1, V1BETA, <<"/", "x">>}

\* base URLs handed to build_candidates
CandBases ==
    {scheme \o host \o Flatten(segs) \o trail :
        scheme \in {<<>>, HTTPS, HTTP}, host \in Hosts,
        segs \in SeqsUpTo(PathSegs, MaxSegs), trail \in {<<>>, <<"/">>}}

\* the logical paths of the callers of build_candidates
LogicalPaths == {<<"chat", "/", "completions">>, <<"responses">>}

SuffixSet == {_OPENAI_ENDPOINT_SUFFIXES[i] : i \in 1..Len(_OPENAI_ENDPOINT_SUFFIXES)}

\* base URLs as a user types or pastes them into settings or secrets
TypedBases ==
    {wrap \o scheme \o host \o mid \o Flatten(sufs) \o trail \o wrap :
        wrap \in {<<>>, <<"'">>, <<"\"">>}, scheme \in {<<>>, HTTPS},
        host \in {<<"h.io">>, <<"www.", "Packyapi.com">>}, mid \in {<<>>, V1},
        sufs \in SeqsUpTo(SuffixSet, MaxSuffixes),
        trail \in {<<>>, <<"/">>, <<"/", " ", "/">>}}

\* a settings blob and secrets that carry base URL b for provider p, in the
\* settings (from = "settings") or in the secrets (from = "secrets")
BaseUrlInput(p, from, b) ==
    [settings |->
        [kind |-> "dict",
         llm |-> [EmptyLLM EXCEPT
            !.provider = p,
            !.openai.base_url = IF from = "settings" THEN b ELSE <<>>,
            !.gemini.base_url = IF from = "settings" THEN b ELSE <<>>]],
     secrets |->
        [EmptySecrets EXCEPT
            !.openai_api_key = <<"sk-test">>,
            !.gemini_api_key = <<"g-test">>,
            !.openai_base_url = IF from = "secrets" THEN b ELSE <<>>,
            !.gemini_base_url = IF from = "secrets" THEN b ELSE <<>>],
     base |-> b,
     model |-> <<>>]

\* model names as a user types them
ModelNames ==
    {<<"g", "p", "t", "5">>, <<"g", "p", "t", "-", "5">>,
     <<"g", "p", "t", "5", ".", "1", "-codex">>,
     <<"G", "P", "T", "5">>, <<"g", "p", "t", "4", "o">>, <<"G", "P", "T", "4", "O">>,
     <<"g", "p", "t", "4", "o", "-", "m", "i", "n", "i">>,
     <<"g", "p", "t", "x">>, <<"g", "p", "t">>, <<"o", "1">>,
     <<"gemini-", "2.5", "-flash">>}

TypedModels ==
    {ws \o q \o inner \o name \o inner \o q \o ws :
        ws \in {<<>>, <<" ">>}, q \in {<<>>, <<"'">>, <<"\"">>},
        inner \in {<<>>, <<" ">>}, name \in ModelNames}

\* a settings blob and secrets that carry model name m for provider p
ModelInput(p, from, m) ==
    LET i == BaseUrlInput(p, "settings", <<>>)
    IN  [i EXCEPT
            !.settings.llm.openai.model = IF from = "settings" THEN m ELSE <<>>,
            !.settings.llm.gemini.model = IF from = "settings" THEN m ELSE <<>>,
            !.secrets.openai_model = IF from = "secrets" THEN m ELSE <<>>,
            !.secrets.gemini_model = IF from = "secrets" THEN m ELSE <<>>,
            !.model = m]

\* values of the temperature and max_tokens fields
TemperatureVals ==
    {NoVal, [t |-> "int", v |-> 1], [t |-> "float", v |-> 3], [t |-> "intstr", v |-> 2],
     [t |-> "floatstr", v |-> 15], [t |-> "bool", v |-> 1], [t |-> "badstr", v |-> 0],
     [t |-> "other", v |-> 0]}

MaxTokensVals ==
    {NoVal, [t |-> "int", v |-> 256], [t |-> "int", v |-> 0], [t |-> "int", v |-> -5],
     [t |-> "float", v |-> 125], [t |-> "float", v |-> -5], [t |-> "intstr", v |-> 64],
     [t |-> "floatstr", v |-> 125], [t |-> "bool", v |-> 1], [t |-> "badstr", v |-> 0],
     [t |-> "other", v |-> 0]}

ProviderVals == {<<>>, <<"openai">>, <<"gemini">>, <<"Gemini">>, <<"[", "gemini", "]">>}

WireVals == {<<>>, <<"chat">>, <<" ", "Responses">>, <<"response">>, <<"x">>}

\* which part of the blob is not a JSON object
Shapes == {"dicts", "settings", "llm", "sections"}

KindOf(shape, part) == IF shape = part THEN "other" ELSE "dict"

\* a settings blob with fields of any type, with an api_key in it at `keyAt`
TypedInput(shape, p, temp, maxtok, wire, keyAt, has_secret) ==
    LET i == BaseUrlInput(p, "settings", <<>>)
        sect == [EmptySection EXCEPT
                    !.kind = KindOf(shape, "sections"),
                    !.wire_api = wire,
                    !.api_key = IF keyAt = "section" THEN <<"sk-settings">> ELSE <<>>]
    IN  [i EXCEPT
            !.settings.kind = KindOf(shape, "settings"),
            !.settings.llm.kind = KindOf(shape, "llm"),
            !.settings.llm.temperature = temp,
            !.settings.llm.max_tokens = maxtok,
            !.settings.llm.api_key = IF keyAt = "llm" THEN <<"sk-settings">> ELSE <<>>,
            !.settings.llm.openai = sect,
            !.settings.llm.gemini = sect,
            !.secrets.openai_api_key = IF has_secret THEN <<"sk-test">> ELSE <<>>,
            !.secrets.gemini_api_key = IF has_secret THEN <<"g-test">> ELSE <<>>]

-----------------------------------------------------------------------------
(* No call of generate_text under way *)

NoCall ==
    [cfg |-> [provider |-> "openai", base_url |-> <<>>, model |-> <<>>, api_key |-> <<>>,
              temperature |-> DEFAULT_TEMPERATURE_TENTHS, max_tokens |-> DEFAULT_MAX_TOKENS,
              wire_api |-> "chat"],
     transport |-> {}]

IdleGen ==
    /\ cfg = NoCall.cfg
    /\ transport = NoCall.transport
    /\ pc = "idle"
    /\ top = [line |-> 0, errors |-> <<>>]
    /\ fb = NewFb
    /\ gen = NewGen
    /\ ex = IdleEx
    /\ exc = NoExc
    /\ result = NoResult
    /\ packy_next_allowed_in = 0
    /\ packy_permits = _PACKY_MAX_INFLIGHT
    /\ hist = InitHist

-----------------------------------------------------------------------------
(* resolve_llm_config applied to the inputs *)

\* no concurrent calls
IdleThr == tk = <<>> /\ lock_holder = 0

\* no run
IdleRun == rin = <<>> /\ run = <<>>

\* no database
IdleDel == db = <<>> /\ last = <<>>

IdleRest == IdleThr /\ IdleRun /\ IdleDel /\ xh = <<>> /\ gate = <<>> /\ fx = <<>>
            /\ sn = <<>>

\* the arguments of the call: a base URL, a model name, or fields of any type
InitCfg ==
    /\ \/ \E p \in {<<>>, <<"openai">>, <<"gemini">>, <<"azure">>},
             from \in {"settings", "secrets"}, b \in TypedBases :
                r_in = BaseUrlInput(p, from, b)
       \/ \E p \in {<<>>, <<"openai">>, <<"gemini">>}, from \in {"settings", "secrets"},
             m \in TypedModels :
                r_in = ModelInput(p, from, m)
       \/ \E shape \in Shapes, p \in ProviderVals, temp \in TemperatureVals,
             maxtok \in MaxTokensVals, keyAt \in {"none", "llm", "section"},
             has_secret \in BOOLEAN :
                r_in = TypedInput(shape, p, temp, maxtok, <<>>, keyAt, has_secret)
       \/ \E shape \in Shapes, p \in ProviderVals, wire \in WireVals :
                r_in = TypedInput(shape, p, NoVal, NoVal, wire, "none", TRUE)
    /\ r_out = <<>>
    /\ cb_in = [base |-> <<>>, path |-> <<>>]
    /\ cb_out = <<>>
    /\ IdleGen
    /\ IdleRest

ResolveLLMConfig ==
    /\ r_out = <<>>
    /\ r_out' = <<resolve_llm_config(r_in.settings, r_in.secrets)>>
    /\ UNCHANGED <<r_in, candVars, genVars, restVars>>

SpecCfg == InitCfg /\ [][ResolveLLMConfig]_vars

(* build_candidates applied to the inputs *)

InitCand ==
    /\ cb_in \in [base : CandBases, path : LogicalPaths]
    /\ cb_out = <<>>
    /\ r_in = BaseUrlInput(<<>>, "settings", <<>>)
    /\ r_out = <<>>
    /\ IdleGen
    /\ IdleRest

BuildCandidates ==
    /\ cb_out = <<>>
    /\ cb_out' = <<build_candidates(cb_in.base, cb_in.path)>>
    /\ UNCHANGED <<cb_in, cfgVars, genVars, restVars>>

SpecCand == InitCand /\ [][BuildCandidates]_vars

-----------------------------------------------------------------------------
(* The calls of generate_text that are explored *)

FullTransport ==
    {RespTimeout, RespNetErr, Resp404, Resp401, Resp502Html, Resp502Bare, Resp503Dist,
     Resp200Plain, Resp200BadJson, Resp200Blank, Resp200Ok}

ProxyTransport == {Resp404, Resp503Dist, Resp200Blank, Resp200Ok}

PackyTransport == {Resp404, Resp502Html, Resp503Dist, Resp200Ok}

LLMConfig(provider, base_url, model, api_key, wire_api) ==
    [provider |-> provider, base_url |-> base_url, model |-> model, api_key |-> api_key,
     temperature |-> DEFAULT_TEMPERATURE_TENTHS, max_tokens |-> DEFAULT_MAX_TOKENS,
     wire_api |-> wire_api]

PROXY_BASE == HTTPS \o <<"h.io">>

PACKY_BASE == HTTPS \o <<"www.", "packyapi.com">>

GOOGLE_BASE == HTTPS \o <<"generativelanguage.googleapis.com">>

GPT5 == GPT_DASH \o <<"5">>

Calls ==
    {[cfg |-> LLMConfig("openai", PROXY_BASE \o V1, OPENAI_DEFAULT_MODEL, k, w),
      transport |-> FullTransport] : k \in {<<>>, <<"sk-test">>}, w \in {"chat", "responses"}}
    \cup
    {[cfg |-> LLMConfig("openai", PACKY_BASE, GPT5, k, w),
      transport |-> PackyTransport] : k \in {<<>>, <<"sk-test">>}, w \in {"chat", "responses"}}
    \cup
    {[cfg |-> LLMConfig("gemini", b, GEMINI_DEFAULT_MODEL, k, "chat"),
      transport |-> FullTransport] : k \in {<<>>, <<"g-test">>}, b \in {<<>>, GOOGLE_BASE \o V1}}
    \cup
    {[cfg |-> LLMConfig("gemini", PROXY_BASE, <<"gemini-", "9", "-x">>, <<"g-test">>, "chat"),
      transport |-> ProxyTransport]}
    \cup
    {[cfg |-> LLMConfig("gemini", PACKY_BASE, <<"Gemini-", "2.5", "-flash">>, k, "chat"),
      transport |-> PackyTransport] : k \in {<<>>, <<"g-test">>}}

InitGen ==
    /\ \E c \in Calls : cfg = c.cfg /\ transport = c.transport
    /\ pc = "start"
    /\ top = [line |-> 0, errors |-> <<>>]
    /\ fb = NewFb
    /\ gen = NewGen
    /\ ex = IdleEx
    /\ exc = NoExc
    /\ result = NoResult
    /\ packy_next_allowed_in \in (IF _is_packy_base(cfg.base_url)
                                  THEN {0, _PACKY_MIN_REQUEST_INTERVAL_MS} ELSE {0})
    /\ packy_permits = _PACKY_MAX_INFLIGHT
    /\ hist = InitHist
    /\ r_in = BaseUrlInput(<<>>, "settings", <<>>)
    /\ r_out = <<>>
    /\ cb_in = [base |-> <<>>, path |-> <<>>]
    /\ cb_out = <<>>
    /\ IdleRest

NextGen ==
    \/ GenerateText
    \/ OpenAIRequest
    \/ GeminiRequest
    \/ BackoffSleep
    \/ CatchInGenerate
    \/ CatchInFallbacks
    \/ CatchInFacade
    \/ PropagateOut

SpecGen == InitGen /\ [][NextGen]_vars

-----------------------------------------------------------------------------------------------------------------------------------------------------
(* Concurrent executor calls.  Every task runs openai_compatible_request for
   the chat wire API; on a packyapi.com base each request goes behind
   _maybe_throttle_packy and inside `async with _PACKY_SEMAPHORE`.
   Of the clock only the sign of _PACKY_NEXT_ALLOWED_AT - now is kept (a
   positive wait is some finite sleep), and every await is a step of its
   own. *)

NTasks == 3

Tasks == 1 .. NTasks

ThrTransport == {Resp200Ok, Resp503Dist, Resp404, RespTimeout, RespNetErr}

NewTask(base) ==
    [base |-> base, pc |-> "throttle", attempt |-> 1, ci |-> 1,
     attempt_had_transient |-> FALSE, wait_s |-> 0, http |-> 0, sleeps |-> 0,
     out |-> "none"]

TaskCandidates(t) == build_candidates(tk[t].base, WirePath("chat"))

\* the executor call of x is over (its locals are gone): `return content_s`
\* or `raise LLMError(...)`
TaskEnds(x, out) == [NewTask(x.base) EXCEPT !.pc = "done", !.out = out]

\* async with _PACKY_THROTTLE_LOCK: enter
ThrAcquireLock(t) ==
    /\ tk[t].pc = "throttle"
    /\ _is_packy_base(tk[t].base)
    /\ lock_holder = 0
    /\ lock_holder' = t
    /\ tk' = [tk EXCEPT ![t].pc = "in_lock"]
    /\ UNCHANGED <<packy_next_allowed_in, packy_permits>>

\* the body of the lock (wait_s, the new _PACKY_NEXT_ALLOWED_AT) and its exit
ThrReserve(t) ==
    /\ tk[t].pc = "in_lock"
    /\ lock_holder = t
    /\ LET wait_s == Max(0, packy_next_allowed_in)
       IN  tk' = [tk EXCEPT ![t].wait_s = wait_s,
                            ![t].pc = IF wait_s > 0 THEN "sleep" ELSE "sem"]
    /\ packy_next_allowed_in' = _PACKY_MIN_REQUEST_INTERVAL_MS
    /\ lock_holder' = 0
    /\ UNCHANGED packy_permits

\* await asyncio.sleep(wait_s) is over; the gate may have been passed meanwhile
ThrSleepEnd(t) ==
    /\ tk[t].pc = "sleep"
    /\ tk' = [tk EXCEPT ![t].pc = "sem", ![t].wait_s = 0]
    /\ packy_next_allowed_in' \in {packy_next_allowed_in, 0}
    /\ UNCHANGED <<packy_permits, lock_holder>>

\* a semaphore that lets every caller in
SemFree_Always(permits) == TRUE

\* asyncio.Semaphore.acquire returns at once iff a slot is free
SemFree(permits) == permits > 0

\* async with _PACKY_SEMAPHORE: enter, and client.post goes out
ThrAcquireSem(t) ==
    /\ tk[t].pc = "sem"
    /\ SemFree(packy_permits)
    /\ packy_permits' = packy_permits - 1
    /\ tk' = [tk EXCEPT ![t].pc = "http", ![t].http = tk[t].http + 1]
    /\ UNCHANGED <<packy_next_allowed_in, lock_holder>>

\* another base: _maybe_throttle_packy returns at once and client.post goes
\* out without the semaphore
PlainPost(t) ==
    /\ tk[t].pc = "throttle"
    /\ ~_is_packy_base(tk[t].base)
    /\ tk' = [tk EXCEPT ![t].pc = "http", ![t].http = tk[t].http + 1]
    /\ UNCHANGED <<packy_next_allowed_in, packy_permits, lock_holder>>

\* the exit of `async with _PACKY_SEMAPHORE` with the slot kept
SemRelease_Leaks(permits) == permits

\* the exit of `async with _PACKY_SEMAPHORE`
SemRelease(permits) == permits + 1

\* client.post ends with response r (or a timeout), the slot is released, and
\* the candidate loop goes on as in openai_compatible_request
ThrHttpEnd(t) ==
    /\ tk[t].pc = "http"
    /\ packy_permits' = IF _is_packy_base(tk[t].base) THEN SemRelease(packy_permits)
                        ELSE packy_permits
    /\ packy_next_allowed_in' \in {packy_next_allowed_in, 0}
    /\ \E r \in ThrTransport :
          LET o == openai_attempt(r, "chat", FALSE)
              x == [tk[t] EXCEPT
                       !.ci = tk[t].ci + 1,
                       !.attempt_had_transient = tk[t].attempt_had_transient \/ o.transient]
          IN  tk' = [tk EXCEPT ![t] =
                        IF o.kind = "return" THEN TaskEnds(x, "returned")
                        ELSE IF o.kind = "raise" THEN TaskEnds(x, "raised")
                        ELSE IF x.ci <= Len(TaskCandidates(t)) THEN [x EXCEPT !.pc = "throttle"]
                        ELSE IF RetryRound(x) THEN [x EXCEPT !.pc = "backoff"]
                        ELSE TaskEnds(x, "raised")]
    /\ UNCHANGED lock_holder

\* await asyncio.sleep(backoff); continue
ThrBackoffEnd(t) ==
    /\ tk[t].pc = "backoff"
    /\ tk' = [tk EXCEPT ![t].pc = "throttle", ![t].attempt = tk[t].attempt + 1,
                        ![t].ci = 1, ![t].attempt_had_transient = FALSE,
                        ![t].sleeps = tk[t].sleeps + 1]
    /\ packy_next_allowed_in' \in {packy_next_allowed_in, 0}
    /\ UNCHANGED <<packy_permits, lock_holder>>

\* the steps of task t
TaskStep(t) ==
    /\ \/ ThrAcquireLock(t)
       \/ ThrReserve(t)
       \/ ThrSleepEnd(t)
       \/ ThrAcquireSem(t)
       \/ PlainPost(t)
       \/ ThrHttpEnd(t)
       \/ ThrBackoffEnd(t)
    /\ UNCHANGED <<cfgVars, candVars, callVars, runVars, delVars, xh, gate, fx, sn>>

\* all calls on the gateway, or the first call on another proxy
InitThrottle ==
    /\ \E first \in {PACKY_BASE, PROXY_BASE} :
          tk = [t \in Tasks |-> NewTask(IF t = 1 THEN first ELSE PACKY_BASE \o V1)]
    /\ lock_holder = 0
    /\ packy_next_allowed_in = 0
    /\ packy_permits = _PACKY_MAX_INFLIGHT
    /\ cfg = NoCall.cfg
    /\ transport = NoCall.transport
    /\ pc = "idle"
    /\ top = [line |-> 0, errors |-> <<>>]
    /\ fb = NewFb
    /\ gen = NewGen
    /\ ex = IdleEx
    /\ exc = NoExc
    /\ result = NoResult
    /\ hist = InitHist
    /\ r_in = BaseUrlInput(<<>>, "settings", <<>>)
    /\ r_out = <<>>
    /\ cb_in = [base |-> <<>>, path |-> <<>>]
    /\ cb_out = <<>>
    /\ IdleRun
    /\ IdleDel
    /\ xh = <<>>
    /\ gate = <<>>
    /\ fx = <<>>
    /\ sn = <<>>

NextThrottle == \E t \in Tasks : TaskStep(t)

\* the event loop runs some task that is ready; sleeps end; every HTTP call
\* ends with a response or a timeout (timeout_s)
SpecThrottle ==
    InitThrottle /\ [][NextThrottle]_vars /\ WF_vars(NextThrottle)

-----------------------------------------------------------------------------
(* stream_run.gen: the pipeline of an LLM-backed run.  An event is
   <<type, agent, whether its data carries "error">>; a text is a token
   ("writer", "editor", ...) with the properties the code tests.  Each agent
   section (its try/except with the generate_text calls inside) is one
   step, with the outcome of its calls as input. *)

Evt(type, agent) == <<type, agent, FALSE>>

ErrEvt(type, agent) == <<type, agent, TRUE>>

\* yield emit(...) for each event of evs, in order; the generate_text calls of
\* `called` are recorded
Emit(r, evs, called) == [r EXCEPT !.events = r.events \o evs, !.llm_calls = r.llm_calls \o called]

\* mark_run_failed / mark_run_completed
MarkRun(r, status) == [r EXCEPT !.status = status]

HardFail_KeepsRunning(r, agent, called) ==
    [Emit(r, <<ErrEvt("run_error", agent), Evt("run_completed", "Director")>>, called)
     EXCEPT !.pc = "end"]

\* run_error, mark_run_failed, run_completed, return
HardFail(r, agent, called) ==
    [MarkRun(Emit(r, <<ErrEvt("run_error", agent), Evt("run_completed", "Director")>>, called),
             "failed")
     EXCEPT !.pc = "end"]

SoftFail_Silent(r, agent) == Emit(r, <<Evt("agent_finished", agent)>>, <<>>)

\* an except block that keeps the run going: agent_output with the error,
\* then agent_finished
SoftFail(r, agent) ==
    Emit(r, <<ErrEvt("agent_output", agent), Evt("agent_finished", agent)>>, <<>>)

\* a statement outside every try raised (an int(...) of a setting or of
\* chapter_index that is no number, a .get on a setting that is no dict): the
\* generator dies, the stream ends with no further event and Run.status is
\* left as it is
Abort(r) == [r EXCEPT !.pc = "aborted"]

NewRun ==
    [pc |-> "new", status |-> "running", events |-> <<>>, llm_calls |-> <<>>,
     writing_ok |-> TRUE, plan_ok |-> TRUE, has_story |-> FALSE, kb_hits |-> FALSE,
     writer_long |-> FALSE, chapter |-> "none",
     ca_failed |-> FALSE, outliner_failed |-> FALSE,
     editor |-> [ran |-> FALSE, raised |-> FALSE, text |-> <<>>]]

\* run = Run(kind, status="running"); emit run_started
RunStarted ==
    /\ run.pc = "new"
    /\ run' = Emit([run EXCEPT !.pc = "autofill"], <<Evt("run_started", "Director")>>, <<>>)
    /\ UNCHANGED rin

CAOutcomes == {"patch", "not_a_dict", "llm_error", "parse_error"}

\* Agent: ConfigAutofill
ConfigAutofill ==
    /\ run.pc = "autofill"
    /\ LET started == Emit(run, <<Evt("agent_started", "ConfigAutofill")>>, <<>>)
           called == Emit(started, <<Evt("tool_call", "ConfigAutofill")>>, <<"ConfigAutofill">>)
           finished(r) == [Emit(r, <<Evt("agent_finished", "ConfigAutofill")>>, <<>>)
                           EXCEPT !.pc = "extractor"]
       IN  IF rin.kb_mode = "strong"
           THEN run' = finished(Emit(started, <<Evt("agent_output", "ConfigAutofill")>>, <<>>))
           ELSE \E o \in CAOutcomes :
                  IF o \in {"llm_error", "parse_error"}
                  THEN run' = [SoftFail([called EXCEPT !.ca_failed = TRUE], "ConfigAutofill")
                               EXCEPT !.pc = "extractor"]
                  ELSE \E story \in {run.has_story, TRUE}, nums \in {run.writing_ok, FALSE} :
                         run' = finished(Emit(
                                   [called EXCEPT
                                       !.has_story = IF o = "patch" THEN story ELSE @,
                                       !.writing_ok = IF o = "patch" THEN nums ELSE @],
                                   <<Evt("agent_output", "ConfigAutofill")>>, <<>>))
    /\ UNCHANGED rin

\* Agent: Extractor (continue mode), then story / writing / chapter_count /
\* chapter_words are read from the settings
Extractor ==
    /\ run.pc = "extractor"
    /\ \E o \in {"no_source", "state", "failed"} :
          LET r == IF rin.kind # "continue" \/ o = "no_source" THEN run
                   ELSE IF o = "state"
                   THEN Emit(run, <<Evt("agent_started", "Extractor"), Evt("tool_call", "Extractor"),
                                    Evt("agent_output", "Extractor"), Evt("artifact", "Extractor"),
                                    Evt("agent_finished", "Extractor")>>, <<"Extractor">>)
                   ELSE SoftFail(Emit(run, <<Evt("agent_started", "Extractor"),
                                             Evt("tool_call", "Extractor")>>, <<"Extractor">>),
                                 "Extractor")
          IN  run' = IF r.writing_ok THEN [r EXCEPT !.pc = "outliner"] ELSE Abort(r)
    /\ UNCHANGED rin

OutlinerOutcomes ==
    {"outline", "outline_on_retry", "not_as_expected", "llm_error", "llm_error_on_retry",
     "parse_error_on_retry"}

\* Agent: Outliner, and the end of an outline run
Outliner ==
    /\ run.pc = "outliner"
    /\ IF rin.kind \notin {"outline", "chapter", "continue"}
       THEN run' = [run EXCEPT !.pc = "plan"]
       ELSE \E o \in OutlinerOutcomes :
              LET calls == IF o \in {"outline_on_retry", "llm_error_on_retry", "parse_error_on_retry"}
                           THEN <<"Outliner", "Outliner">> ELSE <<"Outliner">>
                  tools == [i \in 1 .. Len(calls) |-> Evt("tool_call", "Outliner")]
                  begun == Emit(run, <<Evt("agent_started", "Outliner")>> \o tools, calls)
                  after(r) == IF rin.kind = "outline"
                              THEN [MarkRun(Emit(r, <<Evt("run_completed", "Director")>>, <<>>),
                                            "completed") EXCEPT !.pc = "end"]
                              ELSE [r EXCEPT !.pc = "plan"]
              IN  IF o \in {"outline", "outline_on_retry"}
                  THEN \E plan \in {run.plan_ok, FALSE} :
                         run' = after(Emit([begun EXCEPT !.plan_ok = plan],
                                           <<Evt("agent_output", "Outliner"),
                                             Evt("artifact", "Outliner"),
                                             Evt("agent_finished", "Outliner")>>, <<>>))
                  ELSE IF o = "not_as_expected"
                  THEN run' = after(Emit(begun, <<Evt("agent_output", "Outliner"),
                                                  Evt("agent_finished", "Outliner")>>, <<>>))
                  ELSE IF rin.kind = "outline"
                  THEN run' = HardFail([begun EXCEPT !.outliner_failed = TRUE], "Outliner", <<>>)
                  ELSE run' = after(SoftFail([begun EXCEPT !.outliner_failed = TRUE], "Outliner"))
    /\ UNCHANGED rin

\* chapter_index and the chapter plan, the local KB retrieval, the
\* strong-mode requirement of local context, and the optional web search
Retriever ==
    /\ run.pc = "plan"
    /\ IF ~run.plan_ok
       THEN run' = Abort(run)
       ELSE \E o \in {"hits", "no_hits", "failed"}, web \in {"off", "results", "failed"} :
              LET r == IF o = "failed" THEN run
                       ELSE Emit([run EXCEPT !.kb_hits = (o = "hits")],
                                 <<Evt("tool_result", "Retriever")>>, <<>>)
                  searched == <<Evt("tool_call", "WebSearch"),
                                <<"tool_result", "WebSearch", web = "failed">>>>
              IN  IF rin.kb_mode = "strong" /\ ~r.kb_hits /\ ~r.has_story
                  THEN run' = HardFail(r, "LoreKeeper", <<>>)
                  ELSE run' = [Emit(r, IF web = "off" THEN <<>> ELSE searched, <<>>)
                               EXCEPT !.pc = "writer"]
    /\ UNCHANGED rin

WriterOutcomes == {"text", "long_text", "text_on_retry", "too_short", "llm_error", "exception"}

\* Agent: Writer
Writer ==
    /\ run.pc = "writer"
    /\ \E o \in WriterOutcomes :
          LET retried == o \in {"text_on_retry", "too_short"}
              calls == IF retried THEN <<"Writer", "Writer">> ELSE <<"Writer">>
              tools == [i \in 1 .. Len(calls) |-> Evt("tool_call", "Writer")]
              begun == Emit(run, <<Evt("agent_started", "Writer")>> \o tools, calls)
          IN  /\ retried => rin.output_lang = "zh"
              /\ IF o \in {"too_short", "llm_error", "exception"}
                 THEN run' = HardFail(begun, "Writer", <<>>)
                 ELSE run' = [Emit(begun, <<Evt("agent_output", "Writer"),
                                            Evt("agent_finished", "Writer")>>, <<>>)
                              EXCEPT !.pc = "editor", !.writer_long = (o = "long_text")]
    /\ UNCHANGED rin

\* what generate_text gives the Editor: an exception, or a text
\* [empty, heading, short, cjk]: heading is "none", "markdown" (a line "# T")
\* or "literal" (a line that starts with #, a backslash and s); short is
\* len(e) < int(len(w) * 0.65); cjk is whether it has a CJK character
EditorTexts ==
    [empty : {FALSE}, heading : {"none", "markdown", "literal"}, short : BOOLEAN,
     cjk : BOOLEAN]
    \cup {[empty |-> TRUE, heading |-> "none", short |-> TRUE, cjk |-> FALSE]}

\* re.search(r"(?m)^#\\s+\\S", text) with the pattern as intended: a level-1
\* heading
HeadingFound_Markdown(text) == text.heading = "markdown"

\* re.search(r"(?m)^#\\s+\\S", text): in a raw string \\s is a backslash and
\* an s, so the pattern finds the five characters #\s\S and no "# Title"
HeadingFound(text) == text.heading = "literal"

\* the guardrail of the Editor; the Writer's text has CJK when zh is required
suspicious(e) ==
    IF e.empty THEN TRUE
    ELSE IF ~HeadingFound(e) THEN TRUE
    ELSE IF run.writer_long /\ e.short THEN TRUE
    ELSE IF rin.output_lang = "zh" /\ ~e.cjk THEN TRUE
    ELSE FALSE

\* Agent: Editor (light polish)
Editor ==
    /\ run.pc = "editor"
    /\ LET begun == Emit(run, <<Evt("agent_started", "Editor"), Evt("tool_call", "Editor")>>,
                         <<"Editor">>)
           fallback(how) ==
               [SoftFail(begun, "Editor")
                EXCEPT !.pc = "lorekeeper", !.chapter = "writer", !.editor = how]
       IN  \/ run' = fallback([ran |-> TRUE, raised |-> TRUE, text |-> <<>>])
           \/ \E e \in EditorTexts :
                 (rin.output_lang # "zh" => e.cjk = FALSE) /\
                 IF suspicious(e)
                 THEN run' = fallback([ran |-> TRUE, raised |-> FALSE, text |-> e])
                 ELSE run' = [Emit(begun, <<Evt("agent_output", "Editor"),
                                            Evt("agent_finished", "Editor")>>, <<>>)
                              EXCEPT !.pc = "lorekeeper", !.chapter = "editor",
                                     !.editor = [ran |-> TRUE, raised |-> FALSE, text |-> e]]
    /\ UNCHANGED rin

\* Agent: LoreKeeper; in strong mode the audit may have the chapter rewritten
\* or a To Confirm list appended
LoreKeeper ==
    /\ run.pc = "lorekeeper"
    /\ \E o \in {"kept", "sanitized", "to_confirm"} :
          /\ o # "kept" => rin.kb_mode = "strong"
          /\ LET calls == IF rin.kb_mode # "strong" THEN <<>>
                          ELSE IF o = "sanitized" THEN <<"LoreKeeper", "LoreKeeper">>
                          ELSE <<"LoreKeeper">>
                 tools == [i \in 1 .. Len(calls) |-> Evt("tool_call", "LoreKeeper")]
             IN  run' = [Emit(run, <<Evt("agent_started", "LoreKeeper")>> \o tools \o
                                   <<Evt("agent_output", "LoreKeeper"),
                                     Evt("agent_finished", "LoreKeeper")>>, calls)
                         EXCEPT !.pc = "persist",
                                !.chapter = IF o = "kept" THEN @ ELSE o]
    /\ UNCHANGED rin

\* Persist Chapter + KBChunk, the chapter_markdown artifact, run_completed
Persist ==
    /\ run.pc = "persist"
    /\ run' = [MarkRun(Emit(run, <<Evt("artifact", "Writer"), Evt("run_completed", "Director")>>,
                            <<>>), "completed")
               EXCEPT !.pc = "end"]
    /\ UNCHANGED rin

RunInputs ==
    [kind : {"outline", "chapter", "continue", "rewrite"}, kb_mode : {"weak", "strong"},
     skip_outliner : BOOLEAN, output_lang : {"en", "zh"}, has_story : BOOLEAN,
     writing_ok : BOOLEAN, plan_ok : BOOLEAN]

InitRun ==
    /\ rin \in RunInputs
    /\ run = [NewRun EXCEPT !.has_story = rin.has_story,
                            !.writing_ok = rin.writing_ok, !.plan_ok = rin.plan_ok]
    /\ IdleThr
    /\ IdleDel
    /\ xh = <<>>
    /\ gate = <<>>
    /\ fx = <<>>
    /\ sn = <<>>
    /\ IdleGen
    /\ r_in = BaseUrlInput(<<>>, "settings", <<>>)
    /\ r_out = <<>>
    /\ cb_in = [base |-> <<>>, path |-> <<>>]
    /\ cb_out = <<>>

NextRun ==
    /\ \/ RunStarted
       \/ ConfigAutofill
       \/ Extractor
       \/ Outliner
       \/ Retriever
       \/ Writer
       \/ Editor
       \/ LoreKeeper
       \/ Persist
    /\ UNCHANGED <<cfgVars, candVars, genVars, thrVars, delVars, xh, gate, fx, sn>>

SpecRun == InitRun /\ [][NextRun]_vars

\* the event stream is consumed: StreamingResponse keeps iterating gen(), so
\* the generator is resumed as long as it has a next step
SpecRunConsumed == InitRun /\ [][NextRun]_vars /\ WF_vars(NextRun)

-----------------------------------------------------------------------------
(* The tables and the handlers that write them.  A row is a record with its
   foreign key and an id that tells the rows ever inserted apart; SQLite is opened without
   PRAGMA foreign_keys, so a foreign key is a plain column.  A streaming run
   writes its rows from its generator, between the other requests. *)

\* rows the database may ever hold
MaxRows == 4

ProjectIds == {"p1", "p2"}

EmptyDb ==
    [projects |-> {}, runs |-> {}, trace |-> {}, chapters |-> {}, kb |-> {},
     streaming |-> {}, next |-> 1, deleted |-> {}]

\* the five tables
Tables(d) == [t \in {"projects", "runs", "trace", "chapters", "kb"} |-> d[t]]

Response(op, pid, status) == [op |-> op, pid |-> pid, status |-> status, before |-> Tables(db)]

\* POST /api/projects: the id is a new uuid4
create_project(pid) ==
    /\ pid \notin db.projects \cup db.deleted
    /\ db' = [db EXCEPT !.projects = @ \cup {pid}]
    /\ last' = Response("POST project", pid, 200)

\* GET /api/projects/{project_id}
get_project(pid) ==
    /\ last' = Response("GET project", pid, IF pid \in db.projects THEN 200 ELSE 404)
    /\ UNCHANGED db

\* GET /api/projects/{project_id}/chapters
list_chapters(pid) ==
    /\ last' = Response("GET chapters", pid, IF pid \in db.projects THEN 200 ELSE 404)
    /\ UNCHANGED db

\* stream_run up to the first yield: 404, or the Run row and a generator
stream_run(pid) ==
    /\ db.next <= MaxRows
    /\ IF pid \notin db.projects
       THEN /\ last' = Response("POST run", pid, 404)
            /\ UNCHANGED db
       ELSE /\ db' = [db EXCEPT !.runs = @ \cup {[id |-> db.next, project_id |-> pid]},
                                !.streaming = @ \cup {[id |-> db.next, project_id |-> pid]},
                                !.next = @ + 1]
            /\ last' = Response("POST run", pid, 200)

\* emit: a TraceEvent row with the run's id
emit(r) ==
    /\ r \in db.streaming
    /\ db.next <= MaxRows
    /\ db' = [db EXCEPT !.trace = @ \cup {[id |-> db.next, run_id |-> r.id]}, !.next = @ + 1]
    /\ last' = Response("stream", r.project_id, 200)

\* the end of a chapter run: the Chapter and KBChunk rows, then the generator
\* is over
persist_chapter(r) ==
    /\ r \in db.streaming
    /\ db.next + 1 <= MaxRows
    /\ db' = [db EXCEPT !.chapters = @ \cup {[id |-> db.next, project_id |-> r.project_id]},
                        !.kb = @ \cup {[id |-> db.next + 1, project_id |-> r.project_id,
                                         chapter_id |-> db.next]},
                        !.streaming = @ \ {r},
                        !.next = @ + 2]
    /\ last' = Response("stream", r.project_id, 200)

\* a run that ends without a chapter
stream_ends(r) ==
    /\ r \in db.streaming
    /\ db' = [db EXCEPT !.streaming = @ \ {r}]
    /\ last' = Response("stream", r.project_id, 200)

\* the ids of the rows of the project: its runs, their trace events, its
\* chapters and its KB chunks
RowsOf(d, pid) ==
    LET run_ids == {r.id : r \in {x \in d.runs : x.project_id = pid}}
    IN  run_ids \cup {e.id : e \in {x \in d.trace : x.run_id \in run_ids}}
                \cup {c.id : c \in {x \in d.chapters \cup d.kb : x.project_id = pid}}

delete_rows_KeepsChunks(d, pid) ==
    LET run_ids == {r.id : r \in {x \in d.runs : x.project_id = pid}}
    IN  [d EXCEPT !.trace = {e \in @ : e.run_id \notin run_ids},
                  !.runs = {r \in @ : r.project_id # pid},
                  !.chapters = {c \in @ : c.project_id # pid},
                  !.projects = @ \ {pid}]

\* the rows delete_project deletes in its transaction
delete_rows(d, pid) ==
    LET run_ids == {r.id : r \in {x \in d.runs : x.project_id = pid}}
    IN  [d EXCEPT !.trace = {e \in @ : e.run_id \notin run_ids},
                  !.runs = {r \in @ : r.project_id # pid},
                  !.chapters = {c \in @ : c.project_id # pid},
                  !.kb = {k \in @ : k.project_id # pid},
                  !.projects = @ \ {pid}]

\* DELETE /api/projects/{project_id}
delete_project(pid) ==
    IF pid \notin db.projects
    THEN /\ last' = Response("DELETE project", pid, 404)
         /\ UNCHANGED db
    ELSE /\ db' = [delete_rows(db, pid) EXCEPT !.deleted = @ \cup {pid}]
         /\ last' = Response("DELETE project", pid, 200)

\* DELETE /api/projects/{project_id}/chapters/{chapter_id}: the chapter and
\* the manuscript KB chunk tagged with its id
delete_chapter(pid, cid) ==
    IF pid \notin db.projects \/ ~\E c \in db.chapters : c.id = cid /\ c.project_id = pid
    THEN /\ last' = Response("DELETE chapter", pid, 404)
         /\ UNCHANGED db
    ELSE /\ db' = [db EXCEPT !.chapters = {c \in @ : c.id # cid},
                             !.kb = {k \in @ : ~(k.project_id = pid /\ k.chapter_id = cid)}]
         /\ last' = Response("DELETE chapter", pid, 200)

InitDel ==
    /\ db = EmptyDb
    /\ last = [op |-> "none", pid |-> "", status |-> 0, before |-> Tables(EmptyDb)]
    /\ IdleThr
    /\ IdleRun
    /\ xh = <<>>
    /\ gate = <<>>
    /\ fx = <<>>
    /\ sn = <<>>
    /\ IdleGen
    /\ r_in = BaseUrlInput(<<>>, "settings", <<>>)
    /\ r_out = <<>>
    /\ cb_in = [base |-> <<>>, path |-> <<>>]
    /\ cb_out = <<>>

NextDel ==
    /\ \/ \E pid \in ProjectIds :
             \/ create_project(pid)
             \/ get_project(pid)
             \/ list_chapters(pid)
             \/ stream_run(pid)
             \/ delete_project(pid)
             \/ \E c \in db.chapters : delete_chapter(pid, c.id)
       \/ \E r \in db.streaming :
             \/ emit(r)
             \/ persist_chapter(r)
             \/ stream_ends(r)
    /\ UNCHANGED <<cfgVars, candVars, genVars, thrVars, runVars, xh, gate, fx, sn>>

SpecDel == InitDel /\ [][NextDel]_vars

-----------------------------------------------------------------------------
(* One executor call on its own: openai_compatible_request or
   gemini_generate_v1beta from its first candidate to its return or raise.
   client.post is split into the call and the resumption of the awaiting
   coroutine; xh keeps what the round under way requested and received and
   the sleeps made so far. *)

\* timeout, network error, transient status or empty completion
TransientResponse(shape, wire, r) ==
    \/ r.kind \in {"timeout", "neterr"}
    \/ r.kind = "http" /\ r.status \in transient_status
    \/ /\ r.kind = "http" /\ r.status < 400 /\ r.parses
       /\ IF shape = "openai"
          THEN IsJsonCtype(r) /\ Strip(Parse(wire, r.data)) = <<>>
          ELSE r.data.gparts_str /\ Strip(extract_gemini_text(r.data)) = <<>>

NewXh == [pos |-> "loop", inflight |-> 0, urls |-> <<>>, resps |-> <<>>, sleeps |-> <<>>]

\* the position after client.post was called, were the request not awaited
AfterPost_NotAwaited == "loop"

\* resp = await client.post(...): the coroutine is suspended until the
\* response is there
AfterPost == "await"

ExecTransport == FullTransport \cup {Resp200NullPart, Resp200NoCandidates}

\* the executor calls explored: configuration, executor and wire API
ExecCalls ==
    {[cfg |-> LLMConfig("openai", PROXY_BASE \o V1, OPENAI_DEFAULT_MODEL, <<"sk-test">>, "chat"),
      shape |-> "openai", kind_idx |-> k] : k \in {1, 2}}
    \cup
    {[cfg |-> LLMConfig("openai", PACKY_BASE \o V1, GPT5, <<"sk-test">>, "responses"),
      shape |-> "openai", kind_idx |-> 1]}
    \cup
    {[cfg |-> LLMConfig("gemini", b, GEMINI_DEFAULT_MODEL, <<"g-test">>, "chat"),
      shape |-> "gemini", kind_idx |-> 1] : b \in {<<>>, GOOGLE_BASE \o V1}}
    \cup
    {[cfg |-> LLMConfig("gemini", PACKY_BASE \o V1, <<"Gemini-", "2.5", "-flash">>, <<"g-test">>,
                        "chat"),
      shape |-> sh, kind_idx |-> 1] : sh \in {"openai", "gemini"}}

InitExec ==
    /\ \E c \in ExecCalls :
          /\ cfg = c.cfg
          /\ ex = NewEx(c.shape)
          /\ gen = [kind_idx |-> c.kind_idx, errs |-> <<>>]
    /\ transport = ExecTransport
    /\ pc = "request"
    /\ top = [line |-> 0, errors |-> <<>>]
    /\ fb = NewFb
    /\ exc = NoExc
    /\ result = NoResult
    /\ packy_next_allowed_in = 0
    /\ packy_permits = _PACKY_MAX_INFLIGHT
    /\ hist = InitHist
    /\ xh = NewXh
    /\ r_in = BaseUrlInput(<<>>, "settings", <<>>)
    /\ r_out = <<>>
    /\ cb_in = [base |-> <<>>, path |-> <<>>]
    /\ cb_out = <<>>
    /\ IdleThr
    /\ IdleRun
    /\ IdleDel
    /\ gate = <<>>
    /\ fx = <<>>
    /\ sn = <<>>

\* for url in candidates / for url in urls: client.post(url, ...) is called
ExecSend ==
    /\ pc = "request"
    /\ xh.pos = "loop"
    /\ ex.ci <= Len(Candidates)
    /\ xh' = [xh EXCEPT !.pos = AfterPost, !.inflight = xh.inflight + 1,
                        !.urls = Append(xh.urls, Candidates[ex.ci])]
    /\ UNCHANGED <<cfgVars, candVars, genVars, thrVars, runVars, delVars, gate, fx, sn>>

XhReceived(r) ==
    [xh EXCEPT !.pos = "loop", !.inflight = xh.inflight - 1, !.resps = Append(xh.resps, r)]

\* openai_compatible_request resumes with the response
ExecOpenAIReceive ==
    /\ xh.pos = "await"
    /\ \E r \in transport, interval \in Intervals, d \in HttpDurations :
          /\ OpenAIPost(r, interval, d)
          /\ xh' = XhReceived(r)
    /\ UNCHANGED <<thrVars, runVars, delVars, gate, fx, sn>>

\* gemini_generate_v1beta resumes with the response
ExecGeminiReceive ==
    /\ xh.pos = "await"
    /\ \E r \in transport, interval \in Intervals, d \in HttpDurations :
          /\ GeminiPost(r, interval, d)
          /\ xh' = XhReceived(r)
    /\ UNCHANGED <<thrVars, runVars, delVars, gate, fx, sn>>

\* await asyncio.sleep(backoff); continue
ExecBackoff ==
    /\ pc = "backoff"
    /\ \E backoff \in Backoffs(ex.attempt) :
          /\ Backoff(backoff)
          /\ xh' = [xh EXCEPT !.urls = <<>>, !.resps = <<>>,
                              !.sleeps = Append(xh.sleeps, backoff)]
    /\ UNCHANGED <<thrVars, runVars, delVars, gate, fx, sn>>

NextExec ==
    \/ ExecSend
    \/ ExecOpenAIReceive
    \/ ExecGeminiReceive
    \/ ExecBackoff

SpecExec == InitExec /\ [][NextExec]_vars

-----------------------------------------------------------------------------
(* The throttle gate with a clock.  Every request is one pass of
   _maybe_throttle_packy followed by client.post inside
   `async with _PACKY_SEMAPHORE`; gate.now is loop.time() in ms.  Code between
   two awaits runs in one step; a sleep ends at its deadline or later, an
   HTTP call takes any time.  The requests to the gateway are numbered in the
   order in which they are made. *)

NGate == 4

GateTasks == 1 .. NGate

MaxTicks == 6

\* the step of the clock
TickMs == _PACKY_MIN_REQUEST_INTERVAL_MS \div 2

\* a request not yet made: release is the time its throttle sleep is due to
\* end (now + wait_s), start the time client.post is called
NewRequest(base) ==
    [base |-> base, pc |-> "call", release |-> -1, start |-> -1]

\* the new timestamp taken from the clock alone
NextAllowedAt_FromNow(next_allowed_at, now, interval) == now + interval

\* _PACKY_NEXT_ALLOWED_AT = max(_PACKY_NEXT_ALLOWED_AT, now) + interval
NextAllowedAt(next_allowed_at, now, interval) == Max(next_allowed_at, now) + interval

\* async with _PACKY_SEMAPHORE, then client.post: at once if a slot is free
EnterSemaphore(g, t) ==
    IF SemFree(g.permits)
    THEN [g EXCEPT !.permits = g.permits - 1, !.rq[t].pc = "http", !.rq[t].start = g.now]
    ELSE [g EXCEPT !.rq[t].pc = "sem"]

\* async with _PACKY_THROTTLE_LOCK: enter
GateAcquireLock(t) ==
    /\ gate.rq[t].pc = "call"
    /\ \A u \in 1..(t - 1) : gate.rq[u].pc # "call"
    /\ _is_packy_base(gate.rq[t].base)
    /\ gate.lock = 0
    /\ gate' = [gate EXCEPT !.lock = t, !.rq[t].pc = "in_lock"]

\* the body of the lock and what follows it up to the next await
GateReserve(t) ==
    /\ gate.rq[t].pc = "in_lock"
    /\ gate.lock = t
    /\ \E interval \in Intervals :
          LET wait_s == Max(0, gate.next_allowed_at - gate.now)
              g == [gate EXCEPT
                       !.next_allowed_at = NextAllowedAt(gate.next_allowed_at, gate.now, interval),
                       !.lock = 0,
                       !.rq[t].release = gate.now + wait_s]
          IN  gate' = IF wait_s > 0 THEN [g EXCEPT !.rq[t].pc = "sleep"]
                      ELSE EnterSemaphore(g, t)

\* a sleep that may end before its deadline
SleepOver_AtOnce(now, deadline) == TRUE

\* asyncio.sleep returns no earlier than its deadline
SleepOver(now, deadline) == now >= deadline

\* await asyncio.sleep(wait_s) is over
GateSleepEnd(t) ==
    /\ gate.rq[t].pc = "sleep"
    /\ SleepOver(gate.now, gate.rq[t].release)
    /\ gate' = EnterSemaphore(gate, t)

\* a slot was released to the waiting request
GateAcquireSem(t) ==
    /\ gate.rq[t].pc = "sem"
    /\ SemFree(gate.permits)
    /\ gate' = EnterSemaphore(gate, t)

\* another host: _maybe_throttle_packy returns at once, client.post is called
GatePlainPost(t) ==
    /\ gate.rq[t].pc = "call"
    /\ ~_is_packy_base(gate.rq[t].base)
    /\ gate' = [gate EXCEPT !.rq[t].pc = "http", !.rq[t].start = gate.now]

\* client.post inside the semaphore whatever the host
HeldSlot_Always(base_url) == TRUE

\* if _is_packy_base(base_url): async with _PACKY_SEMAPHORE
HeldSlot(base_url) == _is_packy_base(base_url)

\* client.post is over; the exit of `async with _PACKY_SEMAPHORE`
GateHttpEnd(t) ==
    /\ gate.rq[t].pc = "http"
    /\ gate' = [gate EXCEPT !.rq[t].pc = "done",
                            !.permits = IF HeldSlot(gate.rq[t].base)
                                        THEN SemRelease(gate.permits) ELSE gate.permits]

\* time passes
GateTick ==
    /\ gate.now < MaxTicks * TickMs
    /\ gate.lock = 0
    /\ gate' = [gate EXCEPT !.now = gate.now + TickMs]

GateFrame == UNCHANGED <<cfgVars, candVars, genVars, thrVars, runVars, delVars, xh, fx, sn>>

GateStep(t) ==
    /\ \/ GateAcquireLock(t)
       \/ GateReserve(t)
       \/ GateSleepEnd(t)
       \/ GateAcquireSem(t)
       \/ GatePlainPost(t)
       \/ GateHttpEnd(t)
    /\ GateFrame

\* all requests to the gateway, or one of them to another proxy
InitGate ==
    /\ \E other \in {PACKY_BASE \o V1, PROXY_BASE} :
          gate = [now |-> 0, next_allowed_at |-> 0, lock |-> 0,
                  permits |-> _PACKY_MAX_INFLIGHT,
                  rq |-> [t \in GateTasks |->
                            NewRequest(IF t = NGate THEN other ELSE PACKY_BASE \o V1)]]
    /\ r_in = BaseUrlInput(<<>>, "settings", <<>>)
    /\ r_out = <<>>
    /\ cb_in = [base |-> <<>>, path |-> <<>>]
    /\ cb_out = <<>>
    /\ IdleGen
    /\ IdleThr
    /\ IdleRun
    /\ IdleDel
    /\ xh = <<>>
    /\ fx = <<>>
    /\ sn = <<>>

NextGate ==
    \/ \E t \in GateTasks : GateStep(t)
    \/ GateTick /\ GateFrame

SpecGate == InitGate /\ [][NextGate]_vars

-----------------------------------------------------------------------------
(* Claims about generate_text (SpecGen) *)

Returned == result.status = "text"

Raised == result.status = "error"

\* C1 as stated: generate_text returns text only from an HTTP response with
\* status < 400, a JSON content-type and a body that parses as JSON, and the
\* text is non-empty after stripping, under either executor.
C1_TextOnlyFromJsonSuccess ==
    Returned =>
        /\ result.resp.kind = "http"
        /\ result.resp.status < 400
        /\ IsJsonCtype(result.resp)
        /\ result.resp.parses
        /\ Strip(result.val) # <<>>

MissingKeyTag == <<"missing_api_key_for_provider:", cfg.provider>>

\* C2: with cfg.api_key absent or empty, the only step generate_text takes is
\* the raise of missing_api_key_for_provider:<provider>: no HTTP request, no
\* sleep, and the throttle gate (next-allowed time, semaphore) is unchanged.
C2_MissingKeyRaisesFirst ==
    [][cfg.api_key = <<>> =>
          /\ pc = "start" /\ pc' = "done"
          /\ result'.status = "error" /\ result'.val = MissingKeyTag
          /\ hist = InitHist /\ hist' = hist
          /\ packy_next_allowed_in' = packy_next_allowed_in
          /\ packy_permits' = packy_permits]_vars

\* a call on the throttled gateway without key has raised; the gate was closed
C2_Witness ==
    /\ cfg.api_key = <<>>
    /\ pc = "done"
    /\ result.val = MissingKeyTag
    /\ _is_packy_base(Base)
    /\ packy_next_allowed_in > 0

Is404Tag(msg) == msg \in {<<"openai_http_", "404">>, <<"gemini_http_", "404">>}

\* C3 as stated: the tag an executor call raises once its rounds are exhausted
\* has the maximum score among the failures recorded in that call, and is a
\* 404 tag only if every recorded failure was a 404.
C3_ExhaustedRaisesMaxScore ==
    (pc = "raised" /\ exc.level = "executor" /\ exc.how = "exhausted") =>
        /\ err_score(exc.msg) = hist.exec_max
        /\ Is404Tag(exc.msg) => hist.exec_all404

OpenAIRequested == \E q \in hist.requested : q[1] = "openai"

GeminiFallbackRequested == <<"gemini", "native", TRUE>> \in hist.requested

GeminiNativeFirst ==
    /\ hist.first_req # NoReq => hist.first_req.shape = "gemini" /\ hist.first_req.fb = 0
    /\ (hist.gem_cfg_unavailable /\ OpenAIRequested) => GeminiFallbackRequested
    /\ OpenAIRequested => hist.gem_line_failed

\* C4 as stated: for provider gemini on any non-Google base URL the first
\* request is Gemini-native with cfg.model, a model-unavailable failure of it
\* is followed by a Gemini-native fallback before any OpenAI-compatible
\* request, and the OpenAI-compatible shape comes after the whole native line.
C4_AnyProxyGeminiNativeFirst == IsProxy => GeminiNativeFirst

\* C4 amended: the same, for non-Google base URLs that do not contain
\* "packyapi.com".
C4_GeminiNativeFirst == (IsProxy /\ ~Contains(Lower(Base), <<"packyapi.com">>)) => GeminiNativeFirst

\* the native call of cfg.model was refused as model-unavailable, a native
\* fallback was requested, and the OpenAI-compatible shape has been requested
C4_Witness ==
    /\ IsProxy /\ ~Contains(Lower(Base), <<"packyapi.com">>)
    /\ hist.gem_cfg_unavailable
    /\ GeminiFallbackRequested
    /\ OpenAIRequested

OtherOf(w) == IF w = "chat" THEN "responses" ELSE "chat"

\* C5: for provider openai every request of the preferred wire API precedes
\* every request of the other one, the other one is attempted exactly when the
\* preferred one failed, and generate_text raises only after both failed.
C5_PreferredWireFirst ==
    (cfg.provider = "openai" /\ cfg.api_key # <<>>) =>
        /\ hist.first_req # NoReq => hist.first_req.wire = cfg.wire_api
        /\ (hist.last_req # NoReq /\ hist.last_req.wire = cfg.wire_api) =>
               <<"openai", OtherOf(cfg.wire_api), FALSE>> \notin hist.requested
        /\ OtherOf(cfg.wire_api) \in hist.attempted <=> cfg.wire_api \in hist.failed
        /\ Raised => hist.failed = {"chat", "responses"}

\* the preferred wire API failed on a fatal status and the other one answered
C5_Witness ==
    /\ cfg.provider = "openai"
    /\ Returned
    /\ hist.last_req.wire = OtherOf(cfg.wire_api)
    /\ gen.errs = << <<"openai_http_", "401", ":", "invalid", " ", "key">> >>

\* C6: once a candidate yields a success generate_text is over (no further
\* request, no further sleep) and returns that text; a success in round n has
\* been preceded by exactly n-1 backoff sleeps of the executor call, and a
\* success on the first candidate of round 1 of the first executor call has
\* cost one HTTP request.
C6_FirstSuccessStops ==
    Returned =>
        /\ pc = "done"
        /\ ~ENABLED NextGen
        /\ result.val = (IF ex.shape = "openai"
                         THEN Parse(Kinds[gen.kind_idx], result.resp.data)
                         ELSE extract_gemini_text(result.resp.data))
        /\ hist.exec_sleeps = ex.attempt - 1
        /\ (ex.attempt = 1 /\ ex.ci = 1 /\ hist.execs = 1) => hist.exec_http = 1

\* a success in round 3 after two failed rounds
C6_Witness == Returned /\ ex.attempt = 3 /\ hist.exec_sleeps = 2

\* C7: for a Gemini config on a non-Google base URL, the tag generate_text
\* raises (before any hint) scores at least as high as the error raised by
\* every branch attempted (cfg.model and each fallback, under both shapes).
C7_FinalTagIsHighestRanked ==
    (IsProxy /\ Raised /\ cfg.api_key # <<>>) => err_score(result.tag) >= hist.branch_max

\* every branch of both lines failed, with errors of different scores
C7_Witness ==
    /\ IsProxy /\ Raised
    /\ hist.branches = {"gemini", "openai"} \X {FALSE, TRUE}
    /\ err_score(result.tag) = 90
    /\ \E i \in 1..Len(top.errors) : err_score(top.errors[i]) < 90

ALT == <<" | alt=">>

\* the selected error of the two: the one of higher score, the preferred wire
\* API's on a tie
BestOfTwo(errs) == IF err_score(errs[2]) > err_score(errs[1]) THEN errs[2] ELSE errs[1]

OtherOfTwo(errs) == IF err_score(errs[2]) > err_score(errs[1]) THEN errs[1] ELSE errs[2]

BothWiresFailed == cfg.provider = "openai" /\ Raised /\ Len(gen.errs) = 2

\* C8 as stated: when both wire APIs fail with different error strings the
\* message is '<best> | alt=<other>'; when the strings are equal there is no
\* alt= suffix.
C8_AltSuffixWheneverDifferent ==
    BothWiresFailed =>
        IF gen.errs[1] # gen.errs[2]
        THEN \E b, o \in {gen.errs[1], gen.errs[2]} :
                /\ b # o
                /\ err_score(b) >= err_score(o)
                /\ result.val = b \o ALT \o o
        ELSE ~Contains(result.val, ALT)

PackyHints ==
    IF Contains(Lower(Base), <<"packyapi.com">>)
    THEN {<<>>, PACKY_HINT_CHAT, PACKY_HINT_MODEL}
    ELSE {<<>>}

\* C8 amended: when both wire APIs fail and the non-selected error string is
\* not a substring of the selected one, the message is '<best> | alt=<other>'
\* (followed, on a packyapi.com base URL, by an optional packyapi_hint); when
\* the non-selected string equals or is part of the selected one there is no
\* alt= suffix.
C8_AltSuffixUnlessContained ==
    BothWiresFailed =>
        LET b == BestOfTwo(gen.errs)
            o == OtherOfTwo(gen.errs)
        IN  IF ~Contains(b, o)
            THEN \E hint \in PackyHints : result.val = b \o ALT \o o \o hint
            ELSE \E hint \in PackyHints : result.val = b \o hint

\* both wire APIs failed, differently, and the message carries the alt= suffix
C8_Witness ==
    /\ BothWiresFailed
    /\ gen.errs[1] # gen.errs[2]
    /\ Contains(result.val, ALT)

-----------------------------------------------------------------------------
(* Claims about the Endpoint Candidate Builder (SpecCand) *)

V1V1 == V1 \o V1

AtMostTwoDistinct(out) ==
    /\ Len(out) <= 2
    /\ \A i, j \in 1..Len(out) : i # j => out[i] # out[j]

NoV1V1(out) == \A i \in 1..Len(out) : ~Contains(out[i], V1V1)

\* C9 as stated: for every base URL and logical path, build_candidates returns
\* at most two pairwise-distinct URLs and none contains "/v1/v1".
C9_AsStated ==
    cb_out # <<>> => AtMostTwoDistinct(cb_out[1]) /\ NoV1V1(cb_out[1])

\* C9 amended: build_candidates returns at most two pairwise-distinct URLs for
\* every base URL; none contains "/v1/v1" when the normalized base URL does
\* not already contain "/v1/v1" (logical paths chat/completions, responses).
C9_NoDuplicatedV1 ==
    cb_out # <<>> =>
        /\ AtMostTwoDistinct(cb_out[1])
        /\ ~Contains(_normalize_base_url(cb_in.base), V1V1) => NoV1V1(cb_out[1])

\* a base URL ending in /v1 on an ordinary host: the builder strips the /v1,
\* drops the duplicate and returns two URLs
C9_Witness ==
    /\ cb_out # <<>>
    /\ EndsWith(_normalize_base_url(cb_in.base), V1)
    /\ ~Contains(_normalize_base_url(cb_in.base), V1V1)
    /\ ~_is_packy_base(cb_in.base)
    /\ Len(cb_out[1]) = 2

-----------------------------------------------------------------------------
(* Claims about the Config Resolver (SpecCfg) *)

EndsWithEndpointSuffix(u) == \E suf \in SuffixSet : EndsWith(u, suf)

\* C10: for every provider and base URL input, the resolved base_url ends with
\* none of the four endpoint suffixes and has no trailing slash; when the input
\* ends in one of the suffixes the result is the normalized input with that
\* suffix removed.
C10_BaseUrlHasNoEndpointSuffix ==
    r_out # <<>> =>
        LET got == r_out[1].base_url
            norm == _normalize_base_url(r_in.base)
        IN  /\ ~EndsWithEndpointSuffix(got)
            /\ ~EndsWith(got, <<"/">>)
            /\ (r_in.base # <<>> /\ EndsWithEndpointSuffix(r_in.base)) =>
                    \E suf \in SuffixSet :
                        EndsWith(norm, suf) /\ got = RStripSlash(DropLast(norm, Len(suf)))

\* the model name input without surrounding whitespace and wrapping quotes
TrimmedUnquoted(raw) ==
    LET a == Strip(raw)
    IN  IF IsQuoted(a) THEN Strip(SubSeq(a, 2, Len(a) - 1)) ELSE a

StartsGptDigit(u) ==
    Len(u) >= 4 /\ u[1] = "g" /\ u[2] = "p" /\ u[3] = "t" /\ u[4] \in Digits

\* C11 as stated: a model name that starts with gpt followed directly by a
\* digit resolves to "gpt-" followed by the rest of the input after its first
\* three characters; every other name resolves to itself, trimmed and unquoted.
C11_DashInsertedForEveryInput ==
    (r_out # <<>> /\ r_in.model # <<>>) =>
        LET u == TrimmedUnquoted(r_in.model)
        IN  r_out[1].model = (IF StartsGptDigit(u) THEN GPT_DASH \o DropFirst(u, 3) ELSE u)

GptAliases ==
    {<<"g", "p", "t", "4", "o">>, <<"g", "p", "t", "4", "o", "-", "m", "i", "n", "i">>}

\* C11 amended: for provider openai a model name that starts, in any letter
\* case, with gpt followed directly by a digit resolves to "gpt-" followed by
\* the rest of the input after its first three characters, unchanged, except
\* that gpt4o and gpt4o-mini (in any case) resolve to the lower-case gpt-4o and
\* gpt-4o-mini; every other name, and every name for provider gemini,
\* resolves to itself, trimmed and unquoted.
C11_DashInsertedForOpenAI ==
    (r_out # <<>> /\ r_in.model # <<>>) =>
        LET u == TrimmedUnquoted(r_in.model)
            low == Lower(u)
        IN  r_out[1].model =
                (IF r_out[1].provider = "gemini" THEN u
                 ELSE IF low \in GptAliases THEN GPT_DASH \o DropFirst(low, 3)
                 ELSE IF StartsGptDigit(low) THEN GPT_DASH \o DropFirst(u, 3)
                 ELSE u)

\* a quoted gpt5.1-codex for provider openai has been resolved to gpt-5.1-codex
C11_Witness ==
    /\ r_out # <<>>
    /\ r_out[1].provider = "openai"
    /\ IsQuoted(Strip(r_in.model))
    /\ r_out[1].model = <<"g", "p", "t", "-", "5", ".", "1", "-codex">>

\* the llm section as far as it is a JSON object inside a JSON object
ReadableLLM == r_in.settings.kind = "dict" /\ r_in.settings.llm.kind = "dict"

NotANumber(val) == val.t \in {"none", "badstr", "other"}

\* C12: resolve_llm_config never raises; the provider is gemini only when the
\* field says gemini and openai otherwise, wire_api is chat or responses, and
\* temperature / max_tokens are 0.7 / 800 when the value is absent or is not a
\* number.
C12_ResolverIsTotal ==
    r_out # <<>> =>
        /\ ~r_out[1].exception
        /\ r_out[1].provider =
              (IF ReadableLLM /\ r_in.settings.llm.provider = <<"gemini">>
               THEN "gemini" ELSE "openai")
        /\ r_out[1].wire_api \in {"chat", "responses"}
        /\ (~ReadableLLM \/ NotANumber(r_in.settings.llm.temperature)) =>
                r_out[1].temperature = DEFAULT_TEMPERATURE_TENTHS
        /\ (~ReadableLLM \/ NotANumber(r_in.settings.llm.max_tokens)) =>
                r_out[1].max_tokens = DEFAULT_MAX_TOKENS

\* a blob whose temperature is a list and whose max_tokens is not a number has
\* been resolved to the defaults
C12_Witness ==
    /\ r_out # <<>>
    /\ ReadableLLM
    /\ r_in.settings.llm.temperature.t = "other"
    /\ r_in.settings.llm.max_tokens.t = "badstr"
    /\ r_in.settings.llm.provider = <<"[", "gemini", "]">>
    /\ r_out[1].temperature = DEFAULT_TEMPERATURE_TENTHS
    /\ r_out[1].max_tokens = DEFAULT_MAX_TOKENS

\* C13 as stated: the max_tokens of the resolved LLMConfig is a positive
\* integer for every settings input.
C13_MaxTokensPositive == r_out # <<>> => r_out[1].max_tokens >= 1

SecretKeyFor(provider) ==
    IF provider = "openai" THEN r_in.secrets.openai_api_key ELSE r_in.secrets.gemini_api_key

\* C14: the api_key of the resolved LLMConfig is the secrets' key of the
\* resolved provider, whatever the settings blob holds (an api_key in it
\* included): it is a function of the provider and the secrets alone.
C14_ApiKeyFromSecretsOnly ==
    r_out # <<>> => r_out[1].api_key = SecretKeyFor(r_out[1].provider)

\* a blob that carries an api_key of its own has been resolved
C14_Witness ==
    /\ r_out # <<>>
    /\ ReadableLLM
    /\ r_in.settings.llm.gemini.kind = "dict"
    /\ r_in.settings.llm.gemini.api_key = <<"sk-settings">>
    /\ r_out[1].provider = "gemini"
    /\ r_out[1].api_key = <<"g-test">>

AllTasksDone == \A t \in Tasks : tk[t].pc = "done"

Queued(t) == tk[t].pc \in {"throttle", "in_lock", "sleep", "sem"}

\* C15: concurrent calls, queued on the gateway throttle or not, all
\* terminate (returned or raised); each executor call makes at most 3 rounds
\* of at most 2 candidate requests and at most 2 backoff sleeps; the throttle
\* mutex and the semaphore never deadlock (a step is possible until every call
\* has ended), and every queued request is eventually sent (no call stays
\* queued).
C15_BoundedAndLive ==
    /\ [](\A t \in Tasks :
            /\ tk[t].attempt <= max_attempts
            /\ Len(TaskCandidates(t)) <= 2
            /\ tk[t].http <= max_attempts * 2
            /\ tk[t].sleeps <= max_attempts - 1)
    /\ [](~AllTasksDone => ENABLED NextThrottle)
    /\ \A t \in Tasks : []<>(~Queued(t))
    /\ <>[]AllTasksDone

\* both slots are taken while a third call, which has slept its two
\* backoffs, waits for a slot
C15_Witness ==
    /\ tk # <<>>
    /\ packy_permits = 0
    /\ \E t \in Tasks : tk[t].pc = "sem" /\ tk[t].sleeps = max_attempts - 1
    /\ \E t \in Tasks : tk[t].pc = "http" /\ tk[t].attempt = 1

\* the bounds of C15 in a single generate_text call (SpecGen): every executor
\* call of the cascade, and the number of executor calls (one per model and
\* line, two wire APIs on the OpenAI-compatible line)
RequestsBoundedPerExecutor ==
    /\ ex.attempt <= max_attempts
    /\ pc = "request" => Len(Candidates) <= 2
    /\ hist.exec_http <= max_attempts * 2
    /\ hist.exec_sleeps <= max_attempts - 1
    /\ hist.execs <= (1 + Len(fallback_models)) * 3

-----------------------------------------------------------------------------
(* Claims about stream_run (SpecRun) *)

Emitted(e) == \E i \in 1 .. Len(run.events) : run.events[i] = e

EmittedBy(agent) == \E i \in 1 .. Len(run.events) : run.events[i][2] = agent

RunError == \E i \in 1 .. Len(run.events) : run.events[i][1] = "run_error"

StreamOver == run.pc \in {"end", "aborted"}

\* the error output of the agent is directly followed by its agent_finished
SoftFailureReported(agent) ==
    \E i \in 1 .. Len(run.events) - 1 :
       /\ run.events[i] = <<"agent_output", agent, TRUE>>
       /\ run.events[i + 1] = <<"agent_finished", agent, FALSE>>

AutofillFailureIsSoft ==
    /\ SoftFailureReported("ConfigAutofill")
    /\ ~Emitted(<<"run_error", "ConfigAutofill", TRUE>>)
    /\ run.pc = "extractor" => run.status = "running" /\ ~RunError

LastTwo == SubSeq(run.events, Len(run.events) - 1, Len(run.events))

OutlinerFailureByKind ==
    /\ Emitted(<<"run_error", "Outliner", TRUE>>) => rin.kind = "outline" /\ run.outliner_failed
    /\ run.outliner_failed =>
          IF rin.kind = "outline"
          THEN /\ run.pc = "end"
               /\ run.status = "failed"
               /\ LastTwo = <<(<<"run_error", "Outliner", TRUE>>),
                              (<<"run_completed", "Director", FALSE>>)>>
          ELSE /\ SoftFailureReported("Outliner")
               /\ ~Emitted(<<"run_error", "Outliner", TRUE>>)
               /\ run.pc = "plan" => run.status = "running" /\ ~RunError

Called(agent) == \E i \in 1 .. Len(run.llm_calls) : run.llm_calls[i] = agent

\* C18: in a chapter run whose payload has skip_outliner = true, generate_text is
\* never called for the Outliner and no event with agent Outliner is emitted.
C18_SkipOutlinerRespected ==
    (rin.kind = "chapter" /\ rin.skip_outliner) => ~Called("Outliner") /\ ~EmittedBy("Outliner")

\* suspicious as the claim words it: empty, no level-1 heading, shorter than
\* 65% of a long Writer text, or no CJK when Chinese is required
SuspiciousAsStated(e) ==
    \/ e.empty
    \/ ~HeadingFound_Markdown(e)
    \/ run.writer_long /\ e.short
    \/ rin.output_lang = "zh" /\ ~e.cjk

\* C19, for the runs in weak KB mode (where nothing after the Editor touches
\* the text): when the Editor call raised or its output was suspicious, a run
\* that reaches its end with a chapter has persisted the Writer's text, is
\* completed and has emitted no run_error.
C19_EditorFallsBackToWriter ==
    (/\ run.pc = "end"
     /\ rin.kb_mode = "weak"
     /\ run.editor.ran
     /\ run.editor.raised \/ SuspiciousAsStated(run.editor.text)) =>
       /\ run.chapter = "writer"
       /\ run.status = "completed"
       /\ ~RunError

-----------------------------------------------------------------------------
(* Claims about delete_project (SpecDel) *)

AllRowIds(d) == {x.id : x \in d.runs \cup d.trace \cup d.chapters \cup d.kb}

\* C20: right after a successful DELETE the project is gone and so is every
\* run, trace event, chapter and KB chunk it had; a later GET of the project or of its chapters answers 404; a DELETE
\* of an unknown project answers 404 and leaves the five tables as they were.
C20_DeleteRemovesChildren ==
    /\ (last.op = "DELETE project" /\ last.status = 200) =>
          /\ last.pid \in last.before.projects
          /\ last.pid \notin db.projects
          /\ RowsOf(last.before, last.pid) \cap AllRowIds(db) = {}
          /\ \A x \in db.runs \cup db.chapters \cup db.kb : x.project_id # last.pid
    /\ db.deleted \cap db.projects = {}
    /\ (last.op \in {"GET project", "GET chapters"} /\ last.pid \in db.deleted) =>
          last.status = 404
    /\ (last.op = "DELETE project" /\ last.pid \notin last.before.projects) =>
          last.status = 404 /\ Tables(db) = last.before

C20_Witness ==
    /\ db # <<>>
    /\ last.op = "DELETE project"
    /\ last.status = 200
    /\ \E r \in last.before.runs :
          /\ r.project_id = last.pid
          /\ \E e \in last.before.trace : e.run_id = r.id
    /\ \E c \in last.before.chapters : c.project_id = last.pid
    /\ \E k \in last.before.kb : k.project_id = last.pid

\* a run that was streaming when its project was deleted has written a chapter
\* for it afterwards
ChapterOfDeletedProject ==
    db # <<>> /\ \E c \in db.chapters : c.project_id \in db.deleted

-----------------------------------------------------------------------------
(* Claims about one executor call (SpecExec) *)

\* the wire API of the executor call
ExecWire == WireOf(ex.shape, gen.kind_idx)

TransientAt(i) == TransientResponse(ex.shape, ExecWire, xh.resps[i])

\* every candidate of the round under way was requested and failed transiently
RoundAllTransient ==
    /\ xh.pos = "loop"
    /\ Len(xh.resps) = Len(Candidates)
    /\ \A i \in 1..Len(xh.resps) : TransientAt(i)

\* the round under way is over and none of its candidates failed transiently
RoundNoneTransient ==
    /\ xh.pos = "loop"
    /\ Len(xh.resps) = Len(Candidates) \/ pc \in {"raised", "done"}
    /\ \A i \in 1..Len(xh.resps) : ~TransientAt(i)

\* backoff(n) = 0.8 * 2^(n-1) + uniform(0, 0.2) seconds, in ms
InBackoffRange(ms, n) ==
    /\ ms >= BACKOFF_BASE_MS * Pow2(n - 1)
    /\ ms < BACKOFF_BASE_MS * Pow2(n - 1) + BACKOFF_JITTER_MS

\* the rounds are 1..3 and the n-th sleep, made between round n and round n+1,
\* lasts backoff(n)
RoundsAndSleeps ==
    /\ ex.attempt \in 1..max_attempts
    /\ Len(xh.sleeps) = ex.attempt - 1
    /\ \A n \in 1..Len(xh.sleeps) : InBackoffRange(xh.sleeps[n], n)
    /\ pc = "backoff" => ex.attempt < max_attempts
    /\ RoundNoneTransient => pc \in {"raised", "done"}

\* the executor raised a tag of a transient status at once because the tag
\* matches the model/channel-unavailable heuristic
EndedModelUnavailable ==
    /\ pc = "raised"
    /\ exc.how = "fatal"
    /\ xh.resps[Len(xh.resps)].status \in transient_status
    /\ _looks_like_model_unavailable(exc.msg)

FatalStatus(r) ==
    r.kind = "http" /\ r.status >= 400 /\ r.status # 404 /\ r.status \notin transient_status

\* the latest response of the round under way has a fatal status
FatalReceived == xh.resps # <<>> /\ FatalStatus(xh.resps[Len(xh.resps)])

\* {provider}_http_{code} or {provider}_http_{code}:detail
IsHttpTag(msg, prefix, code) ==
    /\ StartsWith(msg, <<prefix, CodeAtom(code)>>)
    /\ Len(msg) > 2 => (msg[3] = ":" /\ Len(msg) > 3)

\* C22: a response with status >= 400, not 404 and not transient, ends the
\* executor call at once with the tag {provider}_http_{code}[:detail]; after
\* it no candidate is requested, no round is run and no sleep is made.
C22_FatalStatusEndsCall ==
    /\ [](\A i \in 1..Len(xh.resps) :
             FatalStatus(xh.resps[i]) =>
                /\ i = Len(xh.resps)
                /\ pc = "raised"
                /\ exc.level = "executor"
                /\ IsHttpTag(exc.msg, IF ex.shape = "openai" THEN "openai_http_"
                                      ELSE "gemini_http_", xh.resps[i].status)
                /\ xh.inflight = 0)
    /\ [][~FatalReceived]_vars

\* the second candidate of round 2 answered 401
C22_Witness ==
    /\ FatalReceived
    /\ Len(xh.resps) = 2
    /\ ex.attempt = 2
    /\ pc = "raised"

\* the call under way is openai_chat of the Gemini provider on the gateway:
\* the one call made with fast_fail_on_model_unavailable=True
MarkedFastFail ==
    ex.shape = "openai" /\ cfg.provider = "gemini" /\ Contains(Lower(Base), <<"packyapi.com">>)

\* a status of the transient set whose tag matches the heuristic
UnavailableResponse(r) ==
    /\ r.kind = "http"
    /\ r.status \in transient_status
    /\ _looks_like_model_unavailable(HttpTag("openai_http_", r))

UnavailableReceived == xh.resps # <<>> /\ UnavailableResponse(xh.resps[Len(xh.resps)])

\* C23: in a call marked fast_fail_on_model_unavailable a response with a
\* transient status and a model/channel-unavailable tag ends the executor call
\* at once with that tag; no candidate, sleep or round follows it.
C23_FastFailEndsCall ==
    /\ [](MarkedFastFail =>
            \A i \in 1..Len(xh.resps) :
               UnavailableResponse(xh.resps[i]) =>
                  /\ i = Len(xh.resps)
                  /\ pc = "raised"
                  /\ exc.level = "executor"
                  /\ exc.msg = HttpTag("openai_http_", xh.resps[i])
                  /\ xh.inflight = 0)
    /\ [][~(MarkedFastFail /\ UnavailableReceived)]_vars

\* round 2 of a fast-fail call, after a sleep, got 503 "No distributor"
C23_Witness ==
    /\ MarkedFastFail
    /\ UnavailableReceived
    /\ ex.attempt = 2
    /\ Len(xh.sleeps) = 1
    /\ pc = "raised"
    /\ exc.msg = <<"openai_http_", "503", ":", "No", " ", "distributor">>

\* non-JSON content-type (OpenAI-compatible executor, the Gemini-native one
\* does not look at it), a body that is not JSON, or a body the extractor
\* fails on
DecodeError(shape, r) ==
    /\ r.kind = "http"
    /\ r.status < 400
    /\ IF shape = "openai" THEN ~IsJsonCtype(r) \/ ~r.parses
       ELSE ~r.parses \/ ~r.data.gparts_str

\* every candidate of the round under way was requested and failed with a
\* decode error
RoundAllDecodeErrors ==
    /\ xh.pos = "loop"
    /\ Len(xh.resps) = Len(Candidates)
    /\ \A i \in 1..Len(xh.resps) : DecodeError(ex.shape, xh.resps[i])

\* C24: a decode error never ends the executor call at once, the remaining
\* candidates of the round are still tried, and a round of n < 3 whose
\* candidates all failed with decode errors is followed by a backoff sleep and
\* another round.
C24_DecodeErrorsAreTransient ==
    /\ (xh.resps # <<>> /\ DecodeError(ex.shape, xh.resps[Len(xh.resps)])) =>
          /\ ~(pc = "raised" /\ exc.how = "fatal")
          /\ Len(xh.resps) < Len(Candidates) => pc = "request"
    /\ (RoundAllDecodeErrors /\ ex.attempt < max_attempts) => pc = "backoff"

\* the Gemini-native executor raised on a body whose part has no str text
GeminiBadResponseRaised ==
    /\ ex.shape = "gemini"
    /\ xh.resps # <<>>
    /\ ~xh.resps[Len(xh.resps)].data.gparts_str
    /\ pc = "raised"
    /\ exc.msg = <<"gemini_bad_response", ":", "TypeError">>

OnGateway == Contains(Lower(Base), <<"packyapi.com">>)

\* C25: on a packyapi.com base every round of every executor call requests
\* exactly one URL, whatever suffix the base URL carries.
C25_GatewayOneUrlPerRound ==
    OnGateway =>
       /\ Len(xh.urls) <= 1
       /\ pc \in {"backoff", "raised", "done"} => Len(xh.urls) = 1

\* the Gemini-native executor has requested a second URL on the gateway in
\* one round
GatewayProbedTwice ==
    /\ OnGateway
    /\ ex.shape = "gemini"
    /\ Len(xh.urls) = 2
    /\ xh.urls[1] # xh.urls[2]

\* C30: at most one HTTP request of the call is in flight at any time, a
\* request goes out only after the previous one returned or failed, and in
\* every round the URLs are requested in the order of the candidate list.
C30_SequentialInCandidateOrder ==
    /\ xh.inflight \in {0, 1}
    /\ Len(xh.urls) = Len(xh.resps) + xh.inflight
    /\ Len(xh.urls) <= Len(Candidates)
    /\ xh.urls = SubSeq(Candidates, 1, Len(xh.urls))
    /\ pc = "backoff" => xh.urls = Candidates

\* the second candidate of round 2 is in flight
C30_Witness ==
    /\ ex.attempt = 2
    /\ xh.inflight = 1
    /\ Len(xh.urls) = 2
    /\ xh.urls = Candidates
    /\ xh.urls[1] # xh.urls[2]

-----------------------------------------------------------------------------
(* Claims about the Throttle Gate (SpecThrottle, SpecGate) *)

\* the tasks whose HTTP call to the gateway is in flight
GatewayInFlight == {t \in Tasks : tk[t].pc = "http" /\ _is_packy_base(tk[t].base)}

\* C28: at most _PACKY_MAX_INFLIGHT HTTP calls to the gateway are in flight
\* at any moment; the slots held are exactly the calls in flight, whether a
\* call ended with a response, a timeout or a network error; once every call
\* has ended all slots are free.
C28_SlotsAreInFlightCalls ==
    /\ Cardinality(GatewayInFlight) <= _PACKY_MAX_INFLIGHT
    /\ packy_permits \in 0.._PACKY_MAX_INFLIGHT
    /\ _PACKY_MAX_INFLIGHT - packy_permits = Cardinality(GatewayInFlight)
    /\ AllTasksDone => packy_permits = _PACKY_MAX_INFLIGHT

\* both slots are held by calls in flight while a call that has already made
\* a request, and given its slot back, waits for one
C28_Witness ==
    /\ tk # <<>>
    /\ Cardinality(GatewayInFlight) = _PACKY_MAX_INFLIGHT
    /\ \E t \in Tasks : tk[t].pc = "sem" /\ tk[t].http >= 1 /\ _is_packy_base(tk[t].base)

Abs(x) == IF x >= 0 THEN x ELSE 0 - x

GatewayTasks == {t \in GateTasks : Contains(Lower(gate.rq[t].base), <<"packyapi.com">>)}

\* the requests that have passed the gate, and those whose HTTP call has begun
Released == {t \in GatewayTasks : gate.rq[t].release >= 0}

Started == {t \in GatewayTasks : gate.rq[t].start >= 0}

\* the release times of any two requests are at least the minimum interval
\* apart, and the timestamp lies at least that far after each of them
ReleaseTimesApart ==
    /\ \A t, u \in Released :
          t # u => Abs(gate.rq[t].release - gate.rq[u].release) >= _PACKY_MIN_REQUEST_INTERVAL_MS
    /\ \A t \in Released :
          gate.next_allowed_at >= gate.rq[t].release + _PACKY_MIN_REQUEST_INTERVAL_MS

\* the mutex has one holder at most, the one request inside the lock
OneInLock ==
    /\ Cardinality({t \in GateTasks : gate.rq[t].pc = "in_lock"}) <= 1
    /\ \A t \in GateTasks : gate.rq[t].pc = "in_lock" <=> gate.lock = t

\* the timestamp never decreases, and changes only by the step of the lock
\* holder that also leaves the lock, by one interval at least
TimestampStep ==
    /\ gate'.next_allowed_at >= gate.next_allowed_at
    /\ gate'.next_allowed_at # gate.next_allowed_at =>
          /\ gate.lock # 0
          /\ gate'.lock = 0
          /\ gate'.rq[gate.lock].release = Max(gate.now, gate.next_allowed_at)
          /\ gate'.next_allowed_at >=
                gate'.rq[gate.lock].release + _PACKY_MIN_REQUEST_INTERVAL_MS
          /\ \A u \in GateTasks \ {gate.lock} : gate'.rq[u] = gate.rq[u]

\* C26: the read-modify-write of the next-allowed timestamp is done by one
\* request at a time; no update is lost, the timestamp never decreases, and the
\* release times max(now, next_allowed) given to any two requests are at least
\* 220 ms apart.
C26_ReleaseWindowsDisjoint ==
    /\ [](OneInLock /\ ReleaseTimesApart)
    /\ [][TimestampStep]_vars

\* every request has passed the gate: one found it open after the clock had
\* advanced, another still sleeps
C26_Witness ==
    /\ gate # <<>>
    /\ Released = GateTasks
    /\ \E t \in Released : gate.rq[t].release = gate.rq[t].start /\ gate.rq[t].start > 0
    /\ \E t \in Released : gate.rq[t].pc = "sleep" /\ gate.rq[t].release > gate.now

\* C27 as stated: any two HTTP requests to the gateway start at least 220 ms
\* apart.
C27_StartsApart ==
    \A t, u \in Started :
       t # u => Abs(gate.rq[t].start - gate.rq[u].start) >= _PACKY_MIN_REQUEST_INTERVAL_MS

\* C27, amended: any two requests to the gateway are released by the throttle
\* at least 220 ms apart and none starts before its release time.
C27_ReleasedApartStartsNotBefore ==
    /\ \A t, u \in Released :
          t # u => Abs(gate.rq[t].release - gate.rq[u].release) >= _PACKY_MIN_REQUEST_INTERVAL_MS
    /\ \A t \in Started : t \in Released /\ gate.rq[t].start >= gate.rq[t].release
    /\ \A t \in GatewayTasks : gate.rq[t].pc \in {"http", "done"} <=> t \in Started

\* two requests whose sleeps were over had to wait for a slot and started at
\* the same time, when both calls in flight had ended
C27_Witness ==
    /\ gate # <<>>
    /\ \E t, u \in Started :
          /\ t # u
          /\ gate.rq[t].start = gate.rq[u].start
          /\ gate.rq[t].start > gate.rq[t].release
          /\ gate.rq[u].start > gate.rq[u].release
          /\ gate.rq[t].pc = "http" /\ gate.rq[u].pc = "http"
    /\ \E t, u \in Started : t # u /\ gate.rq[t].pc = "done" /\ gate.rq[u].pc = "done"

\* the requests to another host
PlainTasks == GateTasks \ GatewayTasks

\* a step of a request to another host leaves the mutex, the slots and the
\* timestamp as they are, and its HTTP call starts at the time of the step
PlainStep ==
    \A t \in PlainTasks :
       gate'.rq[t] # gate.rq[t] =>
          /\ gate'.next_allowed_at = gate.next_allowed_at
          /\ gate'.lock = gate.lock
          /\ gate'.permits = gate.permits
          /\ gate.rq[t].pc = "call" => gate'.rq[t].start = gate.now

\* C29: a request to another host never takes the throttle mutex or a slot,
\* never sleeps for the throttle, leaves the timestamp unchanged, and can go
\* out at any moment, whatever the gateway traffic.
C29_OtherHostsBypassGate ==
    /\ [](\A t \in PlainTasks :
             /\ gate.rq[t].pc \in {"call", "http", "done"}
             /\ gate.lock # t
             /\ gate.rq[t].release = -1
             /\ gate.rq[t].pc = "call" => ENABLED GatePlainPost(t))
    /\ [][PlainStep]_vars

\* the request to another host is in flight; at the time it went out both
\* slots were held and a gateway request slept behind the throttle
C29_Witness ==
    /\ gate # <<>>
    /\ \E t \in PlainTasks : gate.rq[t].pc = "http" /\ gate.rq[t].start = gate.now
    /\ gate.permits = 0
    /\ \E u \in GatewayTasks : gate.rq[u].pc = "sleep" /\ gate.rq[u].release > gate.now

-----------------------------------------------------------------------------
(* The helpers of generate_text applied on their own: err_score to one error
   tag, extract_chat_text to one decoded response body. *)

\* the tags the two executors and the facade build, and the absent ones
ErrTags ==
    {<<>>, <<" ">>, <<"empty_completion">>, <<"openai_failed">>, <<"gemini_failed">>,
     <<"missing_api_key_for_provider:", "openai">>,
     <<"openai_http_", "404">>, <<"gemini_http_", "404">>,
     <<"openai_http_", "404", ":", "Not", " ", "Found">>,
     <<"openai_http_", "502">>, <<"gemini_http_", "502">>,
     <<"openai_http_", "401", ":", "html_error_page">>, <<"gemini_http_", "400">>,
     <<"openai_non_json_response">>,
     <<"openai_bad_json">>, <<"gemini_bad_json">>,
     <<"openai_bad_response", ":", "TypeError">>,
     <<"gemini_bad_response", ":", "TypeError">>,
     <<"openai_timeout">>, <<"gemini_timeout">>,
     <<"openai_network_error", ":", "ConnectError">>,
     <<"gemini_network_error", ":", "ConnectError">>,
     <<" ", "openai_bad_json", " ">>}

\* what a str field of a decoded body can hold
FieldTexts == {<<>>, <<" ">>, <<"A">>, <<"B">>}

\* what a list-valued message content can hold
ContentLists == {<<>>, << <<"A">>, <<"B">> >>, << <<" ">>, <<"B">> >>, << <<" ">> >>}

\* err_score(msg)
ApplyErrScore ==
    /\ fx # <<>>
    /\ fx.fn = "err_score"
    /\ fx.out = <<>>
    /\ fx' = [fx EXCEPT !.out = <<err_score(fx.arg)>>]
    /\ UNCHANGED <<cfgVars, candVars, genVars, thrVars, runVars, delVars, xh, gate, sn>>

\* extract_chat_text(data)
ApplyExtractChatText ==
    /\ fx # <<>>
    /\ fx.fn = "extract_chat_text"
    /\ fx.out = <<>>
    /\ fx' = [fx EXCEPT !.out = <<extract_chat_text(fx.arg)>>]
    /\ UNCHANGED <<cfgVars, candVars, genVars, thrVars, runVars, delVars, xh, gate, sn>>

InitFn ==
    /\ \/ \E msg \in ErrTags : fx = [fn |-> "err_score", arg |-> msg, out |-> <<>>]
       \/ \E o, c, t \in FieldTexts, l \in ContentLists :
             /\ c = <<>> \/ l = <<>>
             /\ fx = [fn |-> "extract_chat_text",
                      arg |-> [NoData EXCEPT !.output_text = o, !.content = c,
                                             !.content_parts = l, !.choice_text = t],
                      out |-> <<>>]
    /\ r_in = BaseUrlInput(<<>>, "settings", <<>>)
    /\ r_out = <<>>
    /\ cb_in = [base |-> <<>>, path |-> <<>>]
    /\ cb_out = <<>>
    /\ IdleGen
    /\ IdleThr
    /\ IdleRun
    /\ IdleDel
    /\ xh = <<>>
    /\ gate = <<>>
    /\ sn = <<>>

NextFn ==
    \/ ApplyErrScore
    \/ ApplyExtractChatText

SpecFn == InitFn /\ [][NextFn]_vars

-----------------------------------------------------------------------------
(* Claims about the helpers (SpecFn) *)

\* err_score has been applied to a tag
Scored == fx # <<>> /\ fx.fn = "err_score" /\ fx.out # <<>>

\* C31 as stated: for both provider prefixes the score of *_http_404 is 0, of
\* *_non_json_response 10, of *_bad_json 20, of *_bad_response:* 25, of
\* empty_completion 30, of *_timeout and *_network_error:* 80, and of an absent
\* or empty tag -1; every non-empty tag scores above the empty tag and every
\* tag that is not a 404 tag scores above a 404 tag.
C31_ScoreTableBothPrefixes ==
    Scored =>
       LET m == Strip(fx.arg)
           score == fx.out[1]
           is404 == StartsWith(m, <<"openai_http_", "404">>)
                       \/ StartsWith(m, <<"gemini_http_", "404">>)
       IN  /\ m = <<>> => score = -1
           /\ is404 => score = 0
           /\ (StartsWith(m, <<"openai_non_json_response">>)
                  \/ StartsWith(m, <<"gemini_non_json_response">>)) => score = 10
           /\ (StartsWith(m, <<"openai_bad_json">>)
                  \/ StartsWith(m, <<"gemini_bad_json">>)) => score = 20
           /\ (StartsWith(m, <<"openai_bad_response", ":">>)
                  \/ StartsWith(m, <<"gemini_bad_response", ":">>)) => score = 25
           /\ m = <<"empty_completion">> => score = 30
           /\ (m = <<"openai_timeout">> \/ m = <<"gemini_timeout">>) => score = 80
           /\ (StartsWith(m, <<"openai_network_error", ":">>)
                  \/ StartsWith(m, <<"gemini_network_error", ":">>)) => score = 80
           /\ m # <<>> => score > -1
           /\ (m # <<>> /\ ~is404) => score > 0

\* err_score has ranked a decode error of the Gemini executor above an empty
\* completion
GeminiDecodeErrorOutranksEmpty ==
    /\ Scored
    /\ fx.arg \in {<<"gemini_bad_json">>, <<"gemini_bad_response", ":", "TypeError">>}
    /\ fx.out[1] > err_score(<<"empty_completion">>)

\* extract_chat_text has been applied to a decoded body
Extracted == fx # <<>> /\ fx.fn = "extract_chat_text" /\ fx.out # <<>>

\* C32 as stated: the chat extractor returns choices[0].message.content when
\* that is a non-empty string (the concatenation of its text parts when it is a
\* list), else choices[0].text when non-empty, else the top-level output_text,
\* else the empty string; a string of whitespace counts as empty.
C32_MessageContentFirst ==
    Extracted =>
       LET d == fx.arg
           empty(t) == \A i \in 1..Len(t) : t[i] \in Whitespace
           joined == Flatten(SelectSeq(d.content_parts, LAMBDA t : ~empty(t)))
       IN  fx.out[1] = IF ~empty(d.content) THEN d.content
                       ELSE IF ~empty(joined) THEN joined
                       ELSE IF ~empty(d.choice_text) THEN d.choice_text
                       ELSE IF ~empty(d.output_text) THEN d.output_text
                       ELSE <<>>

\* C32, amended: the chat extractor returns the top-level output_text when that
\* is a non-blank string, else choices[0].message.content when that is a
\* non-blank string (the concatenation of its non-blank text parts when it is a
\* list and the concatenation is non-blank), else choices[0].text when
\* non-blank, else the empty string.
C32_OutputTextFirst ==
    Extracted =>
       LET d == fx.arg
           out == fx.out[1]
           blank(t) == \A i \in 1..Len(t) : t[i] \in Whitespace
           kept == SelectSeq(d.content_parts, LAMBDA t : ~blank(t))
           joined == Flatten(kept)
       IN  /\ ~blank(d.output_text) => out = d.output_text
           /\ (blank(d.output_text) /\ ~blank(d.content)) => out = d.content
           /\ (blank(d.output_text) /\ blank(d.content) /\ ~blank(joined)) => out = joined
           /\ (blank(d.output_text) /\ blank(d.content) /\ blank(joined)
                 /\ ~blank(d.choice_text)) => out = d.choice_text
           /\ (blank(d.output_text) /\ blank(d.content) /\ blank(joined)
                 /\ blank(d.choice_text)) => out = <<>>

\* a body with a message content and another output_text has been extracted
\* and the output_text came out
C32_Witness ==
    /\ Extracted
    /\ Strip(fx.arg.output_text) # <<>>
    /\ Strip(fx.arg.content) # <<>> \/ Strip(Join(fx.arg.content_parts)) # <<>>
    /\ fx.arg.output_text # fx.arg.content
    /\ fx.arg.output_text # Join(NonBlank(fx.arg.content_parts))
    /\ fx.out[1] = fx.arg.output_text

-----------------------------------------------------------------------------
(* Claims about the extraction of the Gemini executor (SpecExec) *)

\* the Gemini executor has just read a response below 400 whose body is JSON
GeminiJsonReceived ==
    /\ ex.shape = "gemini"
    /\ xh.pos = "loop"
    /\ xh.resps # <<>>
    /\ LET r == xh.resps[Len(xh.resps)]
       IN  r.kind = "http" /\ r.status < 400 /\ r.parses

\* the response just read was recorded as a retryable empty completion
RecordedEmptyCompletion ==
    /\ ex.last_err = <<"empty_completion">>
    /\ ex.attempt_had_transient
    /\ ~(pc = "raised" /\ exc.how = "fatal")
    /\ pc # "done"

\* C33 as stated: Gemini extraction yields the concatenation, in order, of the
\* text fields of candidates[0].content.parts; when a field at any level is
\* absent or has an unexpected type the extraction yields the empty string,
\* which the executor records as a retryable empty_completion, and never a
\* fatal error that ends the executor call.
C33_ExtractionNeverFatal ==
    GeminiJsonReceived =>
       LET data == xh.resps[Len(xh.resps)].data
           text == IF data.gparts_str THEN Flatten(data.gparts) ELSE <<>>
       IN  IF Strip(text) # <<>>
           THEN pc = "done" /\ result.status = "text" /\ result.val = text
           ELSE RecordedEmptyCompletion

\* what the code does with a JSON body: a part whose text field is present and
\* not a string makes the executor raise gemini_bad_response:TypeError, which
\* ends the call; absent fields and levels of another type give the empty
\* string, recorded as a retryable empty_completion
ExtractionFatalOnNonStrText ==
    GeminiJsonReceived =>
       LET data == xh.resps[Len(xh.resps)].data
           text == Flatten(data.gparts)
       IN  IF ~data.gparts_str
           THEN /\ pc = "raised"
                /\ exc.how = "fatal"
                /\ exc.msg = <<"gemini_bad_response", ":", "TypeError">>
           ELSE IF Strip(text) # <<>>
           THEN pc = "done" /\ result.status = "text" /\ result.val = text
           ELSE RecordedEmptyCompletion

\* a JSON body without candidates was read in round 1 on the only candidate
\* URL, recorded as an empty completion, and the call goes on to its backoff
AbsentCandidatesRecordedEmpty ==
    /\ GeminiJsonReceived
    /\ xh.resps[Len(xh.resps)] = Resp200NoCandidates
    /\ RecordedEmptyCompletion
    /\ pc = "backoff"

-----------------------------------------------------------------------------
(* Claims about the rounds of one executor call (SpecExec) *)

\* the round under way is over: its last candidate was requested, or one of
\* its candidates ended the call
RoundOver ==
    /\ xh.pos = "loop"
    /\ xh.resps # <<>>
    /\ Len(xh.resps) = Len(Candidates) \/ pc \in {"raised", "done"}

SomeTransient == \E i \in 1..Len(xh.resps) : TransientAt(i)

\* the round under way is over and none of its candidates ended the call by
\* returning text or by raising
RoundFailed ==
    /\ RoundOver
    /\ Len(xh.resps) = Len(Candidates)
    /\ pc # "done"
    /\ ~(pc = "raised" /\ exc.how = "fatal")

\* the sleep after round n is followed by round n+1
SleepThenNextRound ==
    pc = "backoff" =>
       /\ pc' = "request"
       /\ ex'.attempt = ex.attempt + 1
       /\ ex'.ci = 1
       /\ xh'.sleeps = Append(xh.sleeps, xh'.sleeps[Len(xh'.sleeps)])
       /\ xh'.resps = <<>>

AllNotFoundEndsCall ==
    /\ RoundFailed
    /\ ex.attempt = 1
    /\ \A i \in 1..Len(xh.resps) : xh.resps[i].kind = "http" /\ xh.resps[i].status = 404
    /\ xh.sleeps = <<>>
    /\ pc = "raised"
    /\ exc.how = "exhausted"

\* the latest response has a transient status and its tag, with the prefix of
\* the executor under way, matches the model/channel-unavailable heuristic
UnavailableTagReceived ==
    /\ xh.pos = "loop"
    /\ xh.resps # <<>>
    /\ LET r == xh.resps[Len(xh.resps)]
       IN  /\ r.kind = "http"
           /\ r.status \in transient_status
           /\ _looks_like_model_unavailable(
                  HttpTag(IF ex.shape = "openai" THEN "openai_http_" ELSE "gemini_http_", r))

\* the latest response was recorded as a transient failure and the call goes
\* on: next candidate, backoff before the next round, or the end after round 3
HandledAsTransient ==
    /\ ex.attempt_had_transient
    /\ ex.last_err = HttpTag(IF ex.shape = "openai" THEN "openai_http_" ELSE "gemini_http_",
                             xh.resps[Len(xh.resps)])
    /\ IF Len(xh.resps) < Len(Candidates) THEN pc = "request"
       ELSE IF ex.attempt < max_attempts THEN pc = "backoff"
       ELSE pc = "raised" /\ exc.how = "exhausted"

\* C36 as stated: in an executor call not marked fast_fail_on_model_unavailable,
\* the Gemini-native executor included, a transient status whose tag matches the
\* model-unavailable heuristic is recorded, makes the round count as transient
\* and is retried with backoff up to 3 rounds.
C36_UnavailableRetriedUnlessFastFail ==
    (UnavailableTagReceived /\ ~MarkedFastFail) => HandledAsTransient

\* the same for the OpenAI-compatible executor alone
OpenAIUnavailableRetriedUnlessFastFail ==
    (UnavailableTagReceived /\ ~MarkedFastFail /\ ex.shape = "openai") => HandledAsTransient

\* an OpenAI-compatible call without the flag got 503 "No distributor" in
\* round 3 after two sleeps
OpenAIUnavailableRetried ==
    /\ UnavailableTagReceived
    /\ ~MarkedFastFail
    /\ ex.shape = "openai"
    /\ ex.attempt = max_attempts
    /\ Len(xh.sleeps) = 2

\* the Gemini-native executor raised on its first 503 "No distributor"
GeminiUnavailableRaised ==
    /\ UnavailableTagReceived
    /\ ex.shape = "gemini"
    /\ ex.attempt = 1
    /\ xh.sleeps = <<>>
    /\ pc = "raised"
    /\ exc.how = "fatal"

-----------------------------------------------------------------------------
(* The LLM configuration of one run (stream_run.gen) against the LLM settings
   of its project, which the run's own ConfigAutofill patch and PATCH
   /api/projects/{id} change while the run is streaming.  sn.calls is the list
   of generate_text calls made so far: the agent, the cfg argument, and what
   resolve_llm_config would give for the settings stored at that time. *)

SnapSecrets == BaseUrlInput(<<>>, "settings", <<>>).secrets

\* the settings blobs a project can hold
SnapSettings ==
    {BaseUrlInput(<<"openai">>, "settings", PROXY_BASE \o V1).settings,
     BaseUrlInput(<<"gemini">>, "settings", PACKY_BASE \o V1).settings,
     TypedInput("dicts", <<"openai">>, NoVal, [t |-> "int", v |-> 256], <<" ", "Responses">>,
                "none", TRUE).settings}

\* writing.chapter_words
SnapChapterWords == {500, 1200, 4000}

MaxUpdates == 1

\* dataclasses.replace(cfg, field=v) on the frozen dataclass: a new LLMConfig
replace(c, field, v) == [c EXCEPT ![field] = v]

\* llm_cfg() with the settings resolved at each call
llm_cfg_Resolved(s) == resolve_llm_config(s.settings, SnapSecrets)

\* def llm_cfg(): return run_llm_cfg
llm_cfg(s) == s.run_llm_cfg

\* await generate_text(..., cfg=c) by `agent`
SnapCall(s, agent, c) ==
    [s EXCEPT !.calls = Append(s.calls, [agent |-> agent, cfg |-> c,
                                         live |-> resolve_llm_config(s.settings, SnapSecrets)])]

\* cfg_retry / retry_cfg: the flash model on the gateway
RetryModel(c) ==
    IF c.provider = "gemini" /\ Contains(Lower(c.base_url), <<"packyapi.com">>)
    THEN replace(c, "model", <<"gemini-", "3", "-flash-preview">>)
    ELSE c

Min(a, b) == IF a <= b THEN a ELSE b

\* max(int(cfg0.max_tokens), min(4096, max(80, int(chapter_words * 1.4))))
desired_max_tokens(c, chapter_words) ==
    Max(c.max_tokens, Min(4096, Max(80, (chapter_words * 14) \div 10)))

SnapFrame == UNCHANGED <<cfgVars, candVars, genVars, thrVars, runVars, delVars, xh, gate, fx>>

\* run_llm_cfg = resolve_llm_config(project.settings or {}); run_started
SnapRunStarted ==
    /\ sn.pc = "start"
    /\ LET c == resolve_llm_config(sn.settings, SnapSecrets)
       IN  sn' = [sn EXCEPT !.pc = "ConfigAutofill", !.run_llm_cfg = c, !.at_start = c]
    /\ SnapFrame

\* ConfigAutofill: one call; a dict answer is merged into the stored settings
SnapConfigAutofill ==
    /\ sn.pc = "ConfigAutofill"
    /\ \E patch \in {<<>>} \cup {<<st>> : st \in SnapSettings} :
          LET s1 == SnapCall(sn, "ConfigAutofill", llm_cfg(sn))
          IN  sn' = [s1 EXCEPT !.pc = "Extractor",
                               !.settings = IF patch = <<>> THEN @ ELSE patch[1]]
    /\ SnapFrame

\* Extractor: one call; story_state is merged into the stored settings
SnapExtractor ==
    /\ sn.pc = "Extractor"
    /\ sn' = [SnapCall(sn, "Extractor", llm_cfg(sn)) EXCEPT !.pc = "Outliner"]
    /\ SnapFrame

\* Outliner: one call, a retry with temperature 0.2 when the answer does not
\* parse, a translation call
SnapOutliner ==
    /\ sn.pc = "Outliner"
    /\ \E retry, translate \in BOOLEAN :
          LET c == llm_cfg(sn)
              s1 == SnapCall(sn, "Outliner", c)
              s2 == IF retry
                    THEN SnapCall(s1, "Outliner", replace(RetryModel(c), "temperature", 2))
                    ELSE s1
              s3 == IF translate THEN SnapCall(s2, "Outliner", c) ELSE s2
          IN  sn' = [s3 EXCEPT !.pc = "Writer"]
    /\ SnapFrame

\* Writer: one call with max_tokens raised for the chapter length, a retry on
\* the flash model when the text is too short
SnapWriter ==
    /\ sn.pc = "Writer"
    /\ \E retry \in BOOLEAN :
          LET cfg0 == llm_cfg(sn)
              d == desired_max_tokens(cfg0, sn.chapter_words)
              c == IF d # cfg0.max_tokens THEN replace(cfg0, "max_tokens", d) ELSE cfg0
              s1 == SnapCall(sn, "Writer", c)
              s2 == IF retry THEN SnapCall(s1, "Writer", RetryModel(c)) ELSE s1
          IN  sn' = [s2 EXCEPT !.pc = "Editor", !.writer_max_tokens = c.max_tokens]
    /\ SnapFrame

\* Editor: one call with max(cfg0.max_tokens, writer_max_tokens)
SnapEditor ==
    /\ sn.pc = "Editor"
    /\ LET cfg0 == llm_cfg(sn)
           m == Max(cfg0.max_tokens, sn.writer_max_tokens)
           c == IF m # cfg0.max_tokens THEN replace(cfg0, "max_tokens", m) ELSE cfg0
       IN  sn' = [SnapCall(sn, "Editor", c) EXCEPT !.pc = "LoreKeeper"]
    /\ SnapFrame

\* LoreKeeper: the evidence call and, for unsafe claims, the rewrite call
SnapLoreKeeper ==
    /\ sn.pc = "LoreKeeper"
    /\ \E rewrite \in BOOLEAN :
          LET s1 == SnapCall(sn, "LoreKeeper", llm_cfg(sn))
              s2 == IF rewrite THEN SnapCall(s1, "LoreKeeper", llm_cfg(s1)) ELSE s1
          IN  sn' = [s2 EXCEPT !.pc = "done"]
    /\ SnapFrame

\* update_project: p.settings = deep_merge(p.settings or {}, payload.settings)
SnapUpdateProject ==
    /\ sn.pc # "done"
    /\ sn.updates < MaxUpdates
    /\ \E st \in SnapSettings :
          /\ st # sn.settings
          /\ sn' = [sn EXCEPT !.settings = st, !.updates = @ + 1]
    /\ SnapFrame

InitSnap ==
    /\ \E st \in SnapSettings, w \in SnapChapterWords :
          sn = [settings |-> st, chapter_words |-> w, pc |-> "start", run_llm_cfg |-> <<>>,
                at_start |-> <<>>, calls |-> <<>>, writer_max_tokens |-> 0, updates |-> 0]
    /\ r_in = BaseUrlInput(<<>>, "settings", <<>>)
    /\ r_out = <<>>
    /\ cb_in = [base |-> <<>>, path |-> <<>>]
    /\ cb_out = <<>>
    /\ IdleGen
    /\ IdleThr
    /\ IdleRun
    /\ IdleDel
    /\ xh = <<>>
    /\ gate = <<>>
    /\ fx = <<>>

NextSnap ==
    \/ SnapRunStarted
    \/ SnapConfigAutofill
    \/ SnapExtractor
    \/ SnapOutliner
    \/ SnapWriter
    \/ SnapEditor
    \/ SnapLoreKeeper
    \/ SnapUpdateProject

SpecSnap == InitSnap /\ [][NextSnap]_vars

-----------------------------------------------------------------------------
(* Claims about the configuration snapshot (SpecSnap) *)

ProviderFields == {"provider", "base_url", "api_key", "wire_api"}

\* C34: every generate_text call of a run uses a config whose provider,
\* base_url, api_key and wire_api are those resolved at run start, whatever
\* the stored settings have become since; a derived copy differs from the
\* snapshot in model, temperature or max_tokens only, and the snapshot is
\* never changed.
C34_CallsUseSnapshot ==
    (sn # <<>> /\ sn.pc # "start") =>
       /\ sn.run_llm_cfg = sn.at_start
       /\ \A i \in 1..Len(sn.calls) :
             \A f \in ProviderFields : sn.calls[i].cfg[f] = sn.at_start[f]

\* the run has made a call with a derived copy of the snapshot while the
\* stored settings resolved to another provider
C34_Witness ==
    /\ sn # <<>>
    /\ sn.pc = "done"
    /\ \E i \in 1..Len(sn.calls) :
          /\ sn.calls[i].cfg # sn.at_start
          /\ sn.calls[i].live.provider # sn.at_start.provider
    /\ \E i \in 1..Len(sn.calls) : sn.calls[i].live.wire_api # sn.at_start.wire_api

-----------------------------------------------------------------------------
(* Claims about the end of a run (SpecRun, SpecRunConsumed) *)

\* C37 as stated: every run whose event stream is consumed eventually leaves
\* status running: it reaches completed or failed and emits run_completed,
\* whatever the LLM returns and whatever the payload and the settings hold.
C37_RunEventuallyEnds ==
    <>(run.status \in {"completed", "failed"} /\ Emitted(Evt("run_completed", "Director")))

\* the generator died on a setting that is no number: the stream is over, no
\* run_completed was emitted and Run.status is still running
RunLeftRunning ==
    /\ run.pc = "aborted"
    /\ run.status = "running"
    /\ ~Emitted(Evt("run_completed", "Director"))
    /\ ~RunError

\* the positions of run_completed in the event list; emit numbers the events
\* with seq += 1, so the i-th event of the list carries seq = i
CompletedAt == {i \in 1..Len(run.events) : run.events[i][1] = "run_completed"}

\* what holds of the events emitted so far: run_started first, run_completed
\* at most once and last, and with it Run.status failed after a run_error,
\* completed otherwise
EventsInOrder ==
    /\ run.events # <<>> => run.events[1] = Evt("run_started", "Director")
    /\ CompletedAt \subseteq {Len(run.events)}
    /\ CompletedAt # {} => /\ run.pc = "end"
                           /\ run.status = IF RunError THEN "failed" ELSE "completed"
    /\ run.status = "failed" => RunError

\* C38 as stated: for every run the events carry seq 1, 2, 3, ... in order, the
\* first event is run_started, run_completed is emitted exactly once and is the
\* last event, and then Run.status is failed if a run_error was emitted and
\* completed otherwise.
C38_CompletedOnceAndLast ==
    /\ EventsInOrder
    /\ StreamOver => CompletedAt = {Len(run.events)}

\* a run ended failed: run_error, then run_completed as the last event
FailedRunCompletedLast ==
    /\ run.pc = "end"
    /\ run.status = "failed"
    /\ RunError
    /\ CompletedAt = {Len(run.events)}
    /\ run.events[Len(run.events) - 1][1] = "run_error"

-----------------------------------------------------------------------------
(* Claims about the references between the tables (SpecDel) *)

\* C39 as stated: in every reachable state every Run, Chapter and KBChunk
\* references an existing Project and every TraceEvent an existing Run, under
\* any interleaving of run streams with project and chapter deletions.
C39_RowsReferenceExistingParents ==
    /\ \A x \in db.runs \cup db.chapters \cup db.kb : x.project_id \in db.projects
    /\ \A e \in db.trace : \E r \in db.runs : r.id = e.run_id

\* a run that was streaming when its project was deleted has emitted an event
\* afterwards: a TraceEvent row of a run that is gone
TraceEventOfDeletedRun ==
    /\ db # <<>>
    /\ \E e \in db.trace : ~\E r \in db.runs : r.id = e.run_id
    /\ last.op = "stream"
    /\ last.pid \in db.deleted

-----------------------------------------------------------------------------
(* Claims about the text a chapter run keeps (SpecRun) *)

\* C40 as stated, for the runs in weak KB mode (where nothing after the Editor
\* touches the text): when the Editor returns text that is not suspicious
\* (non-empty, with a level-1 Markdown heading, at least 65% of the Writer's
\* length, in the required language), a run that reaches its end with a
\* chapter has persisted and emitted the Editor's text.
C40_EditorTextKept ==
    (/\ run.pc = "end"
     /\ rin.kb_mode = "weak"
     /\ run.editor.ran
     /\ ~run.editor.raised
     /\ ~SuspiciousAsStated(run.editor.text)) =>
       run.chapter = "editor"

\* the Editor returned a full-length text with a "# Title" line and the run
\* ended with the Writer's text as its chapter, after the Editor's fallback
\* event
TitledEditorTextDropped ==
    /\ run.pc = "end"
    /\ run.status = "completed"
    /\ run.editor.ran
    /\ ~run.editor.raised
    /\ run.editor.text.heading = "markdown"
    /\ ~run.editor.text.empty
    /\ ~run.editor.text.short
    /\ run.chapter = "writer"
    /\ Emitted(ErrEvt("agent_output", "Editor"))
====
